---- MODULE Spec2Model ----
(***************************************************************************)
(* The social-engagement data layer of the book-recommendation backend:     *)
(* the Like / Comment / Follow / Share collections (mongoose models), the   *)
(* post-save / post-deleteOne hooks that recompute the denormalized         *)
(* counters, and the /api/social route handlers that call them.             *)
(*                                                                          *)
(* Every HTTP request is a process that advances one database round trip    *)
(* (one `await`) at a time, so requests interleave exactly where the        *)
(* handlers yield.  Spec lets requests overlap; SpecSerial runs them one    *)
(* at a time.                                                               *)
(***************************************************************************)
EXTENDS Integers, Sequences, FiniteSets, TLC

\* ------------------------------------------------------------------ bounds
NUsers == 3          \* registered users
NProcs == 2          \* requests that may be in flight at once
MaxRequests == 3     \* requests issued in one behaviour

\* ------------------------------------------------------- documents present
\* ObjectIds are numbers; the ranges keep the collections' ids apart.
UserIds   == 1 .. NUsers
RecIds    == {11}        \* BookRecommendation documents
ReviewIds == {21}        \* Review documents
BookIds   == {31}        \* Book documents
Procs     == 1 .. NProcs

\* What a read of a path that the document does not have yields (undefined).
Undefined == 0 - 1
\* "no document" / "no parentCommentId"
None == 0

\* ------------------------------------------------------------------ schemas
\* The paths a schema declares.  Under mongoose's default strict mode an
\* update of any other path (an undeclared one, or a virtual) is dropped.
SchemaPaths(model) ==
  CASE model = "User" ->
         {"name", "bio", "followersCount", "followingCount",
          "recommendationsCount", "reviewsCount", "likesReceivedCount"}
    [] model = "Comment" ->
         {"userId", "targetType", "targetId", "parentCommentId", "text",
          "replyCount", "likeCount", "isPublic", "isModerated", "reportCount"}
    [] model = "BookRecommendation" -> {"likes", "comments", "viewCount"}
    [] model = "Review" -> {"helpfulCount", "reportCount", "isPublic", "isModerated"}
    [] model = "Book" -> {"viewCount", "addedToListCount"}
    [] OTHER -> {}

\* Model.findByIdAndUpdate(id, { path: val }) on the collection coll of model:
\* no document with that id: nothing happens (null is returned);
\* path not declared by the schema: the update is cast away (strict mode).
findByIdAndUpdateUpsert(coll, model, id, path, val) ==
  [d \in DOMAIN coll \cup {id} |->
     IF d # id THEN coll[d]
     ELSE IF d \notin DOMAIN coll THEN [f \in {path} |-> val]
     ELSE IF path \in SchemaPaths(model) THEN [coll[d] EXCEPT ![path] = val]
     ELSE coll[d]]

findByIdAndUpdate(coll, model, id, path, val) ==
  IF id \in DOMAIN coll /\ path \in SchemaPaths(model)
    THEN [coll EXCEPT ![id][path] = val]
    ELSE coll

\* doc.likeCount / doc.commentCount / doc.shareCount as a reader of the target
\* document sees it: the virtual getter where the schema defines one, the
\* stored path where the document has it, undefined otherwise.
ReadPath(model, doc, path) ==
  IF model = "BookRecommendation" /\ path = "likeCount" THEN Len(doc.likes)
  ELSE IF model = "BookRecommendation" /\ path = "commentCount" THEN Len(doc.comments)
  ELSE IF path \in DOMAIN doc THEN doc[path]
  ELSE Undefined

\* ------------------------------------------------------------------- state
VARIABLES
  users,            \* User collection:            id -> document
  recommendations,  \* BookRecommendation collection
  reviews,          \* Review collection
  books,            \* Book collection
  comments,         \* Comment collection
  likes,            \* Like collection
  follows,          \* Follow collection
  shares,           \* Share collection
  nextId,           \* ObjectIds generated so far
  pc,               \* per request slot: the await it is suspended at
  loc,              \* per request slot: the handler's local variables
  started,          \* requests issued so far
  slots,            \* how many requests the server has in flight at most
  last              \* the response sent last

vars == <<users, recommendations, reviews, books, comments, likes, follows,
          shares, nextId, pc, loc, started, slots, last>>

db == <<users, recommendations, reviews, books, comments, likes, follows, shares>>

Docs(coll) == {coll[d] : d \in DOMAIN coll}

\* coll.countDocuments(filter): the number of documents that match the filter
countDocuments(matching) == Cardinality(matching)

\* doc.deleteOne(): the document with that _id leaves the collection
DeleteOneNoop(coll, id) == coll

Without(coll, id) == [d \in DOMAIN coll \ {id} |-> coll[d]]

\* doc.save() of a new document
With(coll, id, doc) == [d \in DOMAIN coll \cup {id} |-> IF d = id THEN doc ELSE coll[d]]

NewId == 100 + nextId

\* ------------------------------------------------------------ request slots
\* The locals of a handler that is not running.
IdleLoc ==
  [kind |-> "none", userId |-> None, targetType |-> "none", targetId |-> None,
   text |-> <<>>, parentCommentId |-> None,
   found |-> None, n |-> 0, m |-> 0, pending |-> {}, flag |-> FALSE,
   alone |-> TRUE, existedBefore |-> FALSE, countBefore |-> 0, drift |-> FALSE,
   commentId |-> None, replyBefore |-> 0, cachedBefore |-> 0, opts |-> <<>>,
   failed |-> {}]

NoResponse ==
  [kind |-> "none", userId |-> None, targetType |-> "none", targetId |-> None,
   status |-> 0, flag |-> FALSE, count |-> 0, dup |-> FALSE, alone |-> TRUE,
   existedBefore |-> FALSE, countBefore |-> 0, drift |-> FALSE,
   commentId |-> None, parentCommentId |-> None, replyBefore |-> 0,
   cachedBefore |-> 0, opts |-> <<>>, result |-> <<>>, failed |-> {}]

Idle(p) == pc[p] = "idle"
AllIdle == \A p \in Procs : Idle(p)

\* A call with its parameters (args) enters its handler at label: it takes the
\* lowest free slot (slots are interchangeable).  alone records whether the
\* call overlaps another one; existedBefore, countBefore, drift, replyBefore
\* and cachedBefore, given in args, record what the call found when it began;
\* failed records the counters whose recomputation threw in a hook of the call.
Enter(p, label, args) ==
  /\ Idle(p)
  /\ p <= slots
  /\ \A q \in Procs : q < p => ~Idle(q)
  /\ pc' = [pc EXCEPT ![p] = label]
  /\ loc' = [q \in Procs |->
              IF q = p
                THEN [f \in DOMAIN IdleLoc |->
                        IF f = "alone" THEN AllIdle
                        ELSE IF f \in DOMAIN args THEN args[f] ELSE IdleLoc[f]]
                ELSE IF Idle(q) THEN loc[q] ELSE [loc[q] EXCEPT !.alone = FALSE]]

\* An HTTP request arrives: at most MaxRequests of them in one behaviour.
Arrive(p, label, args) ==
  /\ started < MaxRequests
  /\ started' = started + 1
  /\ Enter(p, label, args)

\* what the handler of p answers with
Response(p, status, flag, count, dup) ==
  [kind |-> loc[p].kind, userId |-> loc[p].userId,
   targetType |-> loc[p].targetType, targetId |-> loc[p].targetId,
   status |-> status, flag |-> flag, count |-> count, dup |-> dup,
   alone |-> loc[p].alone, existedBefore |-> loc[p].existedBefore,
   countBefore |-> loc[p].countBefore, drift |-> loc[p].drift,
   commentId |-> loc[p].commentId, parentCommentId |-> loc[p].parentCommentId,
   replyBefore |-> loc[p].replyBefore, cachedBefore |-> loc[p].cachedBefore,
   opts |-> loc[p].opts, result |-> <<>>, failed |-> loc[p].failed]

\* res.status(status).json(...): the handler ends.
Respond(p, status, flag, count, dup) ==
  /\ last' = Response(p, status, flag, count, dup)
  /\ pc' = [pc EXCEPT ![p] = "idle"]
  /\ loc' = [loc EXCEPT ![p] = IdleLoc]

\* res.json({ ..., comments | replies | suggestions: result }): the handler ends.
RespondResult(p, result) ==
  /\ last' = [Response(p, 200, FALSE, Len(result), FALSE) EXCEPT !.result = result]
  /\ pc' = [pc EXCEPT ![p] = "idle"]
  /\ loc' = [loc EXCEPT ![p] = IdleLoc]

Goto(p, label) == pc' = [pc EXCEPT ![p] = label]

\* ==================================================================== Like
LikeTargetTypes == {"recommendation", "comment", "review"}

\* the documents a client can name as a target of the given type
TargetIds(targetType) ==
  CASE targetType = "recommendation" -> RecIds
    [] targetType = "review" -> ReviewIds
    [] targetType = "book" -> BookIds
    [] targetType = "comment" -> DOMAIN comments
    [] OTHER -> {}

\* Like.getLikeCount(targetType, targetId)
getLikeCount(targetType, targetId) ==
  countDocuments({d \in DOMAIN likes :
      LET l == likes[d] IN l.targetType = targetType /\ l.targetId = targetId})

\* Like.findOne({ userId, targetType, targetId }): the _id of a match, or None
LikeFindOne(userId, targetType, targetId) ==
  LET hit == {d \in DOMAIN likes : /\ likes[d].userId = userId
                                    /\ likes[d].targetType = targetType
                                    /\ likes[d].targetId = targetId}
  IN IF hit = {} THEN {None} ELSE hit

\* the unique index { userId, targetType, targetId }: does an insert of this
\* triple hit a duplicate key?
LikeUniqueIndexOff(userId, targetType, targetId) == FALSE

LikeUniqueIndex(userId, targetType, targetId) ==
  \E d \in DOMAIN likes : /\ likes[d].userId = userId
                          /\ likes[d].targetType = targetType
                          /\ likes[d].targetId = targetId

\* the switch of updateTargetLikeCount: the model that holds the target
LikeTargetModel(targetType) ==
  CASE targetType = "recommendation" -> "BookRecommendation"
    [] targetType = "comment" -> "Comment"
    [] targetType = "review" -> "Review"
    [] OTHER -> "none"

\* Model.findByIdAndUpdate(targetId, { path: val }) for the model a hook chose
UpdateTarget(model, id, path, val) ==
  /\ recommendations' = IF model = "BookRecommendation"
                          THEN findByIdAndUpdate(recommendations, model, id, path, val)
                          ELSE recommendations
  /\ comments' = IF model = "Comment"
                   THEN findByIdAndUpdate(comments, model, id, path, val)
                   ELSE comments
  /\ reviews' = IF model = "Review"
                  THEN findByIdAndUpdate(reviews, model, id, path, val)
                  ELSE reviews
  /\ books' = IF model = "Book"
                THEN findByIdAndUpdate(books, model, id, path, val)
                ELSE books

\* the counter of a target as a reader of the target document sees it
Cached(model, id, path) ==
  CASE model = "BookRecommendation" /\ id \in DOMAIN recommendations ->
         ReadPath(model, recommendations[id], path)
    [] model = "Comment" /\ id \in DOMAIN comments -> ReadPath(model, comments[id], path)
    [] model = "Review" /\ id \in DOMAIN reviews -> ReadPath(model, reviews[id], path)
    [] model = "Book" /\ id \in DOMAIN books -> ReadPath(model, books[id], path)
    [] OTHER -> Undefined

\* POST /api/social/like: validation, then Like.toggleLike is entered
LikeRoute(p) ==
  \E userId \in UserIds, targetType \in LikeTargetTypes \cup {"book"} :
    \E targetId \in TargetIds(targetType) :
      /\ Arrive(p, IF targetType \in LikeTargetTypes THEN "toggleLike"
                                                      ELSE "like_invalid",
                [kind |-> "like", userId |-> userId, targetType |-> targetType,
                 targetId |-> targetId,
                 existedBefore |-> LikeFindOne(userId, targetType, targetId) # {None},
                 countBefore |-> getLikeCount(targetType, targetId),
                 cachedBefore |-> Cached(LikeTargetModel(targetType), targetId,
                                         "likeCount"),
                 drift |-> Cached(LikeTargetModel(targetType), targetId, "likeCount")
                             # getLikeCount(targetType, targetId)])
      /\ UNCHANGED <<db, nextId, slots, last>>

\* 400 'Invalid target type'
LikeInvalid(p) ==
  /\ pc[p] = "like_invalid"
  /\ Respond(p, 400, FALSE, 0, FALSE)
  /\ UNCHANGED <<db, nextId, started, slots>>

\* toggleLike: const existingLike = await this.findOne(...)
ToggleLikeFindOne(p) ==
  /\ pc[p] = "toggleLike"
  /\ \E hit \in LikeFindOne(loc[p].userId, loc[p].targetType, loc[p].targetId) :
       loc' = [loc EXCEPT ![p].found = hit]
  /\ Goto(p, "toggleLike_write")
  /\ UNCHANGED <<db, nextId, started, slots, last>>

\* toggleLike: await existingLike.deleteOne()  |  await like.save()
ToggleLikeWrite(p) ==
  /\ pc[p] = "toggleLike_write"
  /\ IF loc[p].found # None
       THEN \* unlike: the document is removed by _id (a no-op if already gone)
            /\ likes' = Without(likes, loc[p].found)
            /\ loc' = [loc EXCEPT ![p].flag = FALSE]
            /\ Goto(p, "likeHook_count")
            /\ UNCHANGED <<nextId, last>>
       ELSE IF LikeUniqueIndex(loc[p].userId, loc[p].targetType, loc[p].targetId)
         THEN \* E11000 duplicate key: save() rejects, toggleLike throws, the
              \* route's catch answers 500
              /\ Respond(p, 500, FALSE, 0, TRUE)
              /\ UNCHANGED <<likes, nextId>>
         ELSE /\ likes' = With(likes, NewId,
                              [userId |-> loc[p].userId,
                               targetType |-> loc[p].targetType,
                               targetId |-> loc[p].targetId])
              /\ nextId' = nextId + 1
              /\ loc' = [loc EXCEPT ![p].flag = TRUE]
              /\ Goto(p, "likeHook_count")
              /\ UNCHANGED last
  /\ UNCHANGED <<users, recommendations, reviews, books, comments, follows,
                 shares, started, slots>>

\* updateTargetLikeCount: const likeCount = await Like.countDocuments(...)
LikeHookCount(p) ==
  /\ pc[p] = "likeHook_count"
  /\ loc' = [loc EXCEPT ![p].n = getLikeCount(loc[p].targetType, loc[p].targetId)]
  /\ Goto(p, "likeHook_update")
  /\ UNCHANGED <<db, nextId, started, slots, last>>

\* updateTargetLikeCount: await Model.findByIdAndUpdate(targetId, { likeCount })
LikeHookUpdate(p) ==
  /\ pc[p] = "likeHook_update"
  /\ UpdateTarget(LikeTargetModel(loc[p].targetType), loc[p].targetId,
                  "likeCount", loc[p].n)
  /\ Goto(p, "like_respond")
  /\ UNCHANGED <<users, likes, follows, shares, nextId, loc, started, slots, last>>

\* route: const likeCount = await Like.getLikeCount(...); res.json(...)
LikeRespond(p) ==
  /\ pc[p] = "like_respond"
  /\ Respond(p, 200, loc[p].flag,
             getLikeCount(loc[p].targetType, loc[p].targetId), FALSE)
  /\ UNCHANGED <<db, nextId, started, slots>>

\* ================================================================== Follow
\* Follow.findOne({ followerId, followingId }): the _id of a match, or None
FollowFindOne(followerId, followingId) ==
  LET hit == {d \in DOMAIN follows : /\ follows[d].followerId = followerId
                                      /\ follows[d].followingId = followingId}
  IN IF hit = {} THEN {None} ELSE hit

\* the unique index { followerId, followingId }: does an insert hit a duplicate?
FollowUniqueIndexOff(followerId, followingId) == FALSE

FollowUniqueIndex(followerId, followingId) ==
  \E d \in DOMAIN follows : /\ follows[d].followerId = followerId
                            /\ follows[d].followingId = followingId

\* route: if (followerId === followingId) return res.status(400)
RouteSelfFollowOff(followerId, followingId) == FALSE

RouteSelfFollow(followerId, followingId) == followerId = followingId

\* toggleFollow: if (followerId.toString() === followingId.toString()) throw
ToggleFollowSelf(followerId, followingId) == followerId = followingId

\* pre('save'): if (this.followerId.equals(this.followingId)) next(new Error)
PreSaveSelfFollow(followerId, followingId) == followerId = followingId

\* Follow.countDocuments({ followerId, status: 'accepted' })
FollowingCountOf(userId) ==
  countDocuments({d \in DOMAIN follows :
      LET f == follows[d] IN f.followerId = userId /\ f.status = "accepted"})

\* Follow.countDocuments({ followingId, status: 'accepted' })
FollowersCountOf(userId) ==
  countDocuments({d \in DOMAIN follows :
      LET f == follows[d] IN f.followingId = userId /\ f.status = "accepted"})

\* POST /api/social/follow: the body's followingId is checked against the caller
FollowRoute(p) ==
  \E followerId \in UserIds, followingId \in UserIds :
    /\ Arrive(p, IF RouteSelfFollow(followerId, followingId)
                    THEN "follow_invalid" ELSE "toggleFollow",
              [kind |-> "follow", userId |-> followerId, targetType |-> "user",
               targetId |-> followingId,
               existedBefore |-> FollowFindOne(followerId, followingId) # {None},
               countBefore |-> FollowersCountOf(followingId),
               cachedBefore |-> <<users[followerId].followingCount,
                                  users[followingId].followersCount>>,
               drift |-> \/ users[followingId].followersCount
                              # FollowersCountOf(followingId)
                         \/ users[followerId].followingCount
                              # FollowingCountOf(followerId)])
    /\ UNCHANGED <<db, nextId, slots, last>>

\* 400 'Users cannot follow themselves'
FollowInvalid(p) ==
  /\ pc[p] = "follow_invalid"
  /\ Respond(p, 400, FALSE, 0, FALSE)
  /\ UNCHANGED <<db, nextId, started, slots>>

\* toggleFollow: the self-follow throw, then await this.findOne(...)
ToggleFollowFindOne(p) ==
  /\ pc[p] = "toggleFollow"
  /\ IF ToggleFollowSelf(loc[p].userId, loc[p].targetId)
       THEN /\ Respond(p, 500, FALSE, 0, FALSE)
       ELSE /\ \E hit \in FollowFindOne(loc[p].userId, loc[p].targetId) :
                 loc' = [loc EXCEPT ![p].found = hit]
            /\ Goto(p, "toggleFollow_write")
            /\ UNCHANGED last
  /\ UNCHANGED <<db, nextId, started, slots>>

\* toggleFollow: await existingFollow.deleteOne()  |  await follow.save()
ToggleFollowWrite(p) ==
  /\ pc[p] = "toggleFollow_write"
  /\ IF loc[p].found # None
       THEN /\ follows' = Without(follows, loc[p].found)
            /\ loc' = [loc EXCEPT ![p].flag = FALSE]
            /\ Goto(p, "followHook_following")
            /\ UNCHANGED <<nextId, last>>
       ELSE IF PreSaveSelfFollow(loc[p].userId, loc[p].targetId)
         THEN /\ Respond(p, 500, FALSE, 0, FALSE)
              /\ UNCHANGED <<follows, nextId>>
       ELSE IF FollowUniqueIndex(loc[p].userId, loc[p].targetId)
         THEN \* E11000 duplicate key: the route's catch answers 500
              /\ Respond(p, 500, FALSE, 0, TRUE)
              /\ UNCHANGED <<follows, nextId>>
         ELSE /\ follows' = With(follows, NewId,
                                [followerId |-> loc[p].userId,
                                 followingId |-> loc[p].targetId,
                                 status |-> "accepted"])
              /\ nextId' = nextId + 1
              /\ loc' = [loc EXCEPT ![p].flag = TRUE]
              /\ Goto(p, "followHook_following")
              /\ UNCHANGED last
  /\ UNCHANGED <<users, recommendations, reviews, books, comments, likes,
                 shares, started, slots>>

\* updateUserFollowCounts: const followingCount = await Follow.countDocuments(...)
FollowHookCountFollowing(p) ==
  /\ pc[p] = "followHook_following"
  /\ loc' = [loc EXCEPT ![p].n = FollowingCountOf(loc[p].userId)]
  /\ Goto(p, "followHook_followers")
  /\ UNCHANGED <<db, nextId, started, slots, last>>

\* updateUserFollowCounts: const followersCount = await Follow.countDocuments(...)
FollowHookCountFollowers(p) ==
  /\ pc[p] = "followHook_followers"
  /\ loc' = [loc EXCEPT ![p].m = FollowersCountOf(loc[p].targetId),
                        ![p].pending = {"followingCount", "followersCount"}]
  /\ Goto(p, "followHook_update")
  /\ UNCHANGED <<db, nextId, started, slots, last>>

\* the two writes of updateUserFollowCounts: which user gets which counter
FollowCountsWriteSwapped(followerId, followingId, path) ==
  IF path = "followingCount" THEN followingId ELSE followerId

FollowCountsWrite(followerId, followingId, path) ==
  IF path = "followingCount" THEN followerId ELSE followingId

\* updateUserFollowCounts: await Promise.all([User.findByIdAndUpdate(followerId,
\* { followingCount }), User.findByIdAndUpdate(followingId, { followersCount })]):
\* the two updates reach the database in either order
FollowHookUpdate(p) ==
  /\ pc[p] = "followHook_update"
  /\ \E path \in loc[p].pending :
       /\ users' = findByIdAndUpdate(users, "User",
                     FollowCountsWrite(loc[p].userId, loc[p].targetId, path), path,
                     IF path = "followingCount" THEN loc[p].n ELSE loc[p].m)
       /\ loc' = [loc EXCEPT ![p].pending = @ \ {path}]
       /\ Goto(p, IF loc[p].pending = {path} THEN "follow_respond"
                                             ELSE "followHook_update")
  /\ UNCHANGED <<recommendations, reviews, books, comments, likes, follows,
                 shares, nextId, started, slots, last>>

\* route: const followStats = await Follow.getFollowStats(followingId); res.json
FollowRespond(p) ==
  /\ pc[p] = "follow_respond"
  /\ Respond(p, 200, loc[p].flag, FollowersCountOf(loc[p].targetId), FALSE)
  /\ UNCHANGED <<db, nextId, started, slots>>

\* -------------------------------------------------------- suggested follows
\* getSuggestedFollows: the followingId of the user's accepted follows, and
\* followingIds.push(new ObjectId(userId))
FollowingIdsOnlySelf(userId) == {userId}

FollowingIdsOf(userId) ==
  {follows[d].followingId :
     d \in {e \in DOMAIN follows : /\ follows[e].followerId = userId
                                   /\ follows[e].status = "accepted"}}
    \cup {userId}

\* aggregate $match: followerId $in followingIds, followingId $nin followingIds,
\* status 'accepted'
SuggestionMatch(followingIds) ==
  {d \in DOMAIN follows : /\ follows[d].followerId \in followingIds
                         /\ follows[d].followingId \notin followingIds
                         /\ follows[d].status = "accepted"}

\* aggregate $group { _id: '$followingId', mutualFollowersCount: { $sum: 1 } }
mutualFollowersCount(followingIds, id) ==
  Cardinality({d \in SuggestionMatch(followingIds) : follows[d].followingId = id})

\* the _id of the groups
SuggestionGroups(followingIds) ==
  {follows[d].followingId : d \in SuggestionMatch(followingIds)}

\* aggregate $sort { mutualFollowersCount: -1 }, $limit: the outcomes the two
\* stages can give (groups with equal counts come in any order)
SortLimitUnsorted(followingIds, limit) ==
  LET ids == SuggestionGroups(followingIds)
      n == IF limit < Cardinality(ids) THEN limit ELSE Cardinality(ids)
  IN {r \in [1 .. n -> ids] : \A i, j \in 1 .. n : i < j => r[i] # r[j]}

SortLimit(followingIds, limit) ==
  LET ids == SuggestionGroups(followingIds)
      n == IF limit < Cardinality(ids) THEN limit ELSE Cardinality(ids)
      count(id) == mutualFollowersCount(followingIds, id)
  IN {r \in [1 .. n -> ids] :
        /\ \A i, j \in 1 .. n : i < j => r[i] # r[j] /\ count(r[i]) >= count(r[j])
        /\ \A id \in ids \ {r[i] : i \in 1 .. n} :
              \A i \in 1 .. n : count(r[i]) >= count(id)}

\* aggregate $lookup from 'users', $unwind '$user': a group without its user
\* document is dropped
HasUser(id) == id \in DOMAIN users

\* the results getSuggestedFollows can return (the _id of each document)
Suggestions(followingIds, limit) ==
  {SelectSeq(r, HasUser) : r \in SortLimit(followingIds, limit)}

\* aggregate $project { _id: '$user._id', ..., mutualFollowersCount: 1 }: the
\* documents of a result
Project(followingIds, r) ==
  [i \in 1 .. Len(r) |->
     [_id |-> r[i], mutualFollowersCount |-> mutualFollowersCount(followingIds, r[i])]]

\* req.query.limit (10 is the default)
SuggestLimits == {1, 10}

\* GET /api/social/suggested-follows.  A read: it is not one of the
\* MaxRequests writes of a behaviour.
SuggestedFollowsRoute(p) ==
  \E userId \in DOMAIN users, limit \in SuggestLimits :
    /\ Enter(p, "suggest_find",
             [kind |-> "getSuggestedFollows", userId |-> userId, n |-> limit])
    /\ UNCHANGED <<db, nextId, started, slots, last>>

\* getSuggestedFollows: const currentUserFollowing = await this.find({...})
SuggestedFollowsFind(p) ==
  /\ pc[p] = "suggest_find"
  /\ loc' = [loc EXCEPT ![p].pending = FollowingIdsOf(loc[p].userId)]
  /\ Goto(p, "suggest_aggregate")
  /\ UNCHANGED <<db, nextId, started, slots, last>>

\* getSuggestedFollows: const suggestions = await this.aggregate([...]); res.json
SuggestedFollowsAggregate(p) ==
  /\ pc[p] = "suggest_aggregate"
  /\ \E result \in Suggestions(loc[p].pending, loc[p].n) :
       RespondResult(p, Project(loc[p].pending, result))
  /\ UNCHANGED <<db, nextId, started, slots>>

\* ================================================================= Comment
CommentTargetTypes == {"recommendation", "review"}

\* String.prototype.trim
RECURSIVE TrimLeft(_)
TrimLeft(t) == IF t # <<>> /\ Head(t) = " " THEN TrimLeft(Tail(t)) ELSE t

RECURSIVE TrimRight(_)
TrimRight(t) ==
  IF t # <<>> /\ t[Len(t)] = " " THEN TrimRight(SubSeq(t, 1, Len(t) - 1)) ELSE t

Trim(t) == TrimRight(TrimLeft(t))

\* String.prototype.toLowerCase, on the letters the texts use
LowerChar(c) ==
  CASE c = "S" -> "s" [] c = "P" -> "p" [] c = "A" -> "a" [] c = "M" -> "m"
    [] c = "F" -> "f" [] c = "K" -> "k" [] c = "E" -> "e" [] c = "C" -> "c"
    [] c = "O" -> "o" [] OTHER -> c

toLowerCase(t) == [i \in 1 .. Len(t) |-> LowerChar(t[i])]

\* String.prototype.includes
includes(t, word) ==
  \E i \in 1 .. Len(t) - Len(word) + 1 : SubSeq(t, i, i + Len(word) - 1) = word

\* pre('save'): const inappropriateWords = ['spam', 'fake', 'scam']
inappropriateWords ==
  {<<"s", "p", "a", "m">>, <<"f", "a", "k", "e">>, <<"s", "c", "a", "m">>}

\* commentSchema.pre('save'): trim the text, flag it if it contains a listed word
CommentPreSaveTrimOnly(doc) == [doc EXCEPT !.text = Trim(doc.text)]

CommentPreSave(doc) ==
  LET text == Trim(doc.text)
  IN [doc EXCEPT !.text = text,
                 !.isModerated =
                    IF \E w \in inappropriateWords : includes(toLowerCase(text), w)
                      THEN TRUE ELSE @]

\* the texts a client sends
Texts == {<<"o", "k">>, <<" ", "S", "p", "a", "m">>}

\* updateTargetCommentCount: Comment.countDocuments({ targetType, targetId,
\* isPublic: true, isModerated: false })
CommentCountOf(targetType, targetId) ==
  countDocuments({d \in DOMAIN comments :
                    LET c == comments[d]
                    IN  /\ c.targetType = targetType /\ c.targetId = targetId
                        /\ c.isPublic /\ ~c.isModerated})

\* every Comment document that references the target
CommentsOf(targetType, targetId) ==
  countDocuments({d \in DOMAIN comments :
      LET c == comments[d] IN c.targetType = targetType /\ c.targetId = targetId})

\* comment.replyCount of the stored comment (0 without the comment)
ReplyCountOf(commentId) ==
  IF commentId \in DOMAIN comments THEN comments[commentId].replyCount ELSE 0

\* the switch of updateTargetCommentCount
CommentTargetModel(targetType) ==
  CASE targetType = "recommendation" -> "BookRecommendation"
    [] targetType = "review" -> "Review"
    [] OTHER -> "none"

\* POST /api/social/comment: validation passed, new Comment(commentData)
CommentRoute(p) ==
  \E userId \in UserIds, targetType \in CommentTargetTypes, text \in Texts :
    \E targetId \in TargetIds(targetType), parent \in {None} \cup DOMAIN comments :
      /\ Arrive(p, "comment_save",
                [kind |-> "comment", userId |-> userId, targetType |-> targetType,
                 targetId |-> targetId, text |-> text, parentCommentId |-> parent,
                 countBefore |-> CommentsOf(targetType, targetId),
                 replyBefore |-> ReplyCountOf(parent),
                 cachedBefore |-> Cached(CommentTargetModel(targetType), targetId,
                                         "commentCount")])
      /\ UNCHANGED <<db, nextId, slots, last>>

\* route: await comment.save()  (pre('save') runs first)
CommentSave(p) ==
  /\ pc[p] = "comment_save"
  /\ comments' = With(comments, NewId,
                      CommentPreSave(
                        [userId |-> loc[p].userId, targetType |-> loc[p].targetType,
                         targetId |-> loc[p].targetId,
                         parentCommentId |-> loc[p].parentCommentId,
                         text |-> loc[p].text, replyCount |-> 0, likeCount |-> 0,
                         isPublic |-> TRUE, isModerated |-> FALSE,
                         reportCount |-> 0]))
  /\ nextId' = nextId + 1
  /\ loc' = [loc EXCEPT ![p].found = NewId, ![p].commentId = NewId]
  /\ Goto(p, "commentHook_count")
  /\ UNCHANGED <<users, recommendations, reviews, books, likes, follows, shares,
                 started, slots, last>>

\* updateTargetCommentCount: const commentCount = await Comment.countDocuments(...)
CommentHookCount(p) ==
  /\ pc[p] = "commentHook_count"
  /\ loc' = [loc EXCEPT ![p].n = CommentCountOf(loc[p].targetType, loc[p].targetId)]
  /\ Goto(p, "commentHook_update")
  /\ UNCHANGED <<db, nextId, started, slots, last>>

\* updateTargetCommentCount: await Model.findByIdAndUpdate(targetId, { commentCount });
\* post('deleteOne') goes on to the parent when the comment was a reply
CommentHookUpdate(p) ==
  /\ pc[p] = "commentHook_update"
  /\ UpdateTarget(CommentTargetModel(loc[p].targetType), loc[p].targetId,
                  "commentCount", loc[p].n)
  /\ Goto(p, CASE loc[p].kind = "comment" -> "comment_respond"
               [] loc[p].kind = "addReply" ->
                    IF loc[p].flag THEN "addReply_respond" ELSE "addReply_parentSave"
               [] loc[p].kind = "report" -> "report_respond"
               [] OTHER ->
                    IF loc[p].parentCommentId # None /\ ~loc[p].flag
                      THEN "deleteHook_parent"
                      ELSE "deleteComment_respond")
  /\ UNCHANGED <<users, likes, follows, shares, nextId, loc, started, slots, last>>

\* route: await comment.populate(...); res.status(201).json(...)
CommentRespond(p) ==
  /\ pc[p] = "comment_respond"
  /\ Respond(p, 201, TRUE, 0, FALSE)
  /\ UNCHANGED <<db, nextId, started, slots>>

\* DELETE /api/social/comments/:commentId: await Comment.findById(commentId),
\* 404 without the comment, 403 for another user's comment
DeleteCommentRoute(p) ==
  \E userId \in UserIds, commentId \in DOMAIN comments :
    /\ Arrive(p, "deleteComment",
              [kind |-> "deleteComment", userId |-> userId, targetType |-> "comment",
               targetId |-> commentId, commentId |-> commentId])
    /\ UNCHANGED <<db, nextId, slots, last>>

\* route: comment.userId.toString() !== userId  (403 when they differ)
OwnsCommentAnyone(comment, userId) == TRUE

OwnsComment(comment, userId) == comment.userId = userId

DeleteCommentFindById(p) ==
  /\ pc[p] = "deleteComment"
  /\ IF loc[p].targetId \notin DOMAIN comments
       THEN Respond(p, 404, FALSE, 0, FALSE)
     ELSE IF ~OwnsComment(comments[loc[p].targetId], loc[p].userId)
       THEN Respond(p, 403, FALSE, 0, FALSE)
     ELSE LET c == comments[loc[p].targetId]
          IN /\ loc' = [loc EXCEPT ![p].found = loc[p].targetId,
                                   ![p].targetType = c.targetType,
                                   ![p].targetId = c.targetId,
                                   ![p].parentCommentId = c.parentCommentId,
                                   ![p].countBefore =
                                      CommentsOf(c.targetType, c.targetId),
                                   ![p].replyBefore = ReplyCountOf(c.parentCommentId),
                                   ![p].cachedBefore =
                                      Cached(CommentTargetModel(c.targetType),
                                             c.targetId, "commentCount")]
             /\ Goto(p, "deleteComment_delete")
             /\ UNCHANGED last
  /\ UNCHANGED <<db, nextId, started, slots>>

\* route: await comment.deleteOne()
DeleteCommentDelete(p) ==
  /\ pc[p] = "deleteComment_delete"
  /\ comments' = Without(comments, loc[p].found)
  /\ Goto(p, "commentHook_count")
  /\ UNCHANGED <<users, recommendations, reviews, books, likes, follows, shares,
                 nextId, loc, started, slots, last>>

\* post('deleteOne'): const parentComment = await Comment.findById(parentCommentId)
DeleteHookParent(p) ==
  /\ pc[p] = "deleteHook_parent"
  /\ IF loc[p].parentCommentId \in DOMAIN comments
       THEN /\ loc' = [loc EXCEPT ![p].m = comments[loc[p].parentCommentId].replyCount]
            /\ Goto(p, "deleteHook_parentSave")
       ELSE /\ Goto(p, "deleteComment_respond")
            /\ UNCHANGED loc
  /\ UNCHANGED <<db, nextId, started, slots, last>>

\* Math.max(0, parentComment.replyCount - 1)
ReplyCountAfterDelete(replyCount) == IF replyCount - 1 > 0 THEN replyCount - 1 ELSE 0

\* post('deleteOne'): parentComment.replyCount = ...; await parentComment.save().
\* save() writes the modified paths of the loaded parent; it rejects when the
\* parent is gone (the hook's catch swallows it), and with nothing modified it
\* writes nothing.  The parent's own post('save') hook then recounts its target.
DeleteHookParentSave(p) ==
  /\ pc[p] = "deleteHook_parentSave"
  /\ LET id == loc[p].parentCommentId
         modified == ReplyCountAfterDelete(loc[p].m) # loc[p].m
     IN IF modified /\ id \notin DOMAIN comments
          THEN /\ Goto(p, "deleteComment_respond")
               /\ UNCHANGED <<comments, loc>>
          ELSE /\ comments' =
                    IF modified
                      THEN [comments EXCEPT ![id] =
                              CommentPreSave([@ EXCEPT !.replyCount =
                                                ReplyCountAfterDelete(loc[p].m)])]
                      ELSE comments
               /\ loc' = [loc EXCEPT
                            ![p].flag = TRUE,
                            ![p].targetType =
                               IF id \in DOMAIN comments THEN comments[id].targetType
                               ELSE @,
                            ![p].targetId =
                               IF id \in DOMAIN comments THEN comments[id].targetId
                               ELSE @]
               /\ Goto(p, "commentHook_count")
  /\ UNCHANGED <<users, recommendations, reviews, books, likes, follows, shares,
                 nextId, started, slots, last>>

\* route: res.json({ success: true, message: 'Comment deleted successfully' })
DeleteCommentRespond(p) ==
  /\ pc[p] = "deleteComment_respond"
  /\ Respond(p, 200, FALSE, 0, FALSE)
  /\ UNCHANGED <<db, nextId, started, slots>>

\* ---------------------------------------------------------- comment listings
\* .sort({ createdAt: 1 }): ObjectIds grow with the time of creation
RECURSIVE SortAsc(_)
SortAsc(ids) ==
  IF ids = {} THEN <<>>
  ELSE LET first == CHOOSE x \in ids : \A y \in ids : x <= y
       IN <<first>> \o SortAsc(ids \ {first})

\* .sort(sort) with sort[sortBy] = sortOrder === 'desc' ? -1 : 1
Sort(ids, sortOrder) ==
  LET asc == SortAsc(ids)
  IN IF sortOrder = "desc" THEN [i \in 1 .. Len(asc) |-> asc[Len(asc) + 1 - i]]
     ELSE asc

\* .skip((page - 1) * limit).limit(limit)
SkipLimit(docs, page, limit) ==
  LET skip == (page - 1) * limit
      upto == IF skip + limit < Len(docs) THEN skip + limit ELSE Len(docs)
  IN IF skip >= Len(docs) THEN <<>> ELSE SubSeq(docs, skip + 1, upto)

\* the options a caller passes: page, limit, sortOrder, includeReplies
\* (limit 10 is a default; 1 makes a second page)
QueryOptions ==
  [page : 1 .. 2, limit : {1, 10}, sortOrder : {"asc", "desc"},
   includeReplies : BOOLEAN]

\* getTargetComments: query.parentCommentId = { $exists: false } unless includeReplies
TopLevelOnlyOff(comment, includeReplies) == TRUE

TopLevelOnly(comment, includeReplies) ==
  includeReplies \/ comment.parentCommentId = None

\* the filter isPublic: true, isModerated: false of both listings
ListedAll(comment) == TRUE

Listed(comment) == comment.isPublic /\ ~comment.isModerated

\* Comment.getTargetComments(targetType, targetId, options): the _ids found
getTargetComments(targetType, targetId, options) ==
  SkipLimit(Sort({d \in DOMAIN comments :
                    LET c == comments[d]
                    IN  /\ c.targetType = targetType /\ c.targetId = targetId
                        /\ Listed(c)
                        /\ TopLevelOnly(c, options.includeReplies)},
                 options.sortOrder),
            options.page, options.limit)

\* getCommentReplies: the filter { parentCommentId }
IsReplyToAny(comment, parentCommentId) == TRUE

IsReplyTo(comment, parentCommentId) == comment.parentCommentId = parentCommentId

\* Comment.getCommentReplies(parentCommentId, options): the _ids found
getCommentReplies(parentCommentId, options) ==
  SkipLimit(Sort({d \in DOMAIN comments :
                    LET c == comments[d]
                    IN  IsReplyTo(c, parentCommentId) /\ Listed(c)},
                 options.sortOrder),
            options.page, options.limit)

\* the _ids a sequence of found documents holds
Range(docs) == {docs[i] : i \in 1 .. Len(docs)}

\* the comment ids a caller can ask the replies of: stored comments and the
\* ids that were given out before (deleted comments)
ParentIds == DOMAIN comments \cup {41} \cup {100 + i : i \in 1 .. nextId - 1}

\* GET /api/social/comments/:targetType/:targetId (includeReplies is not passed)
GetCommentsRoute(p) ==
  \E targetType \in CommentTargetTypes, options \in QueryOptions :
    \E targetId \in TargetIds(targetType) :
      /\ ~options.includeReplies
      /\ Arrive(p, "getComments",
                [kind |-> "getTargetComments", targetType |-> targetType,
                 targetId |-> targetId, opts |-> options])
      /\ UNCHANGED <<db, nextId, slots, last>>

\* route: const comments = await Comment.getTargetComments(...); res.json
GetCommentsRespond(p) ==
  /\ pc[p] = "getComments"
  /\ RespondResult(p, getTargetComments(loc[p].targetType, loc[p].targetId,
                                        loc[p].opts))
  /\ UNCHANGED <<db, nextId, started, slots>>

\* Comment.getCommentReplies(commentId, { page, limit, sortBy, sortOrder: 'asc' })
GetRepliesCall(p) ==
  \E parentCommentId \in ParentIds, options \in QueryOptions :
    /\ ~options.includeReplies /\ options.sortOrder = "asc"
    /\ Arrive(p, "getReplies",
              [kind |-> "getCommentReplies", targetType |-> "comment",
               targetId |-> parentCommentId, opts |-> options])
    /\ UNCHANGED <<db, nextId, slots, last>>

GetRepliesRespond(p) ==
  /\ pc[p] = "getReplies"
  /\ RespondResult(p, getCommentReplies(loc[p].targetId, loc[p].opts))
  /\ UNCHANGED <<db, nextId, started, slots>>

\* parent.addReply(userId, text) on a loaded Comment document (this = parent):
\* the reply copies the parent's target
AddReplyCall(p) ==
  \E userId \in UserIds, text \in Texts, parent \in DOMAIN comments :
    LET c == comments[parent]
    IN /\ Arrive(p, "addReply_save",
                 [kind |-> "addReply", userId |-> userId,
                  targetType |-> c.targetType, targetId |-> c.targetId,
                  text |-> text, parentCommentId |-> parent, m |-> c.replyCount,
                  countBefore |-> CommentsOf(c.targetType, c.targetId),
                  replyBefore |-> c.replyCount,
                  cachedBefore |-> Cached(CommentTargetModel(c.targetType),
                                          c.targetId, "commentCount")])
       /\ UNCHANGED <<db, nextId, slots, last>>

\* addReply: const reply = new Comment({...}); await reply.save()
AddReplySave(p) ==
  /\ pc[p] = "addReply_save"
  /\ comments' = With(comments, NewId,
                      CommentPreSave(
                        [userId |-> loc[p].userId, targetType |-> loc[p].targetType,
                         targetId |-> loc[p].targetId,
                         parentCommentId |-> loc[p].parentCommentId,
                         text |-> loc[p].text, replyCount |-> 0, likeCount |-> 0,
                         isPublic |-> TRUE, isModerated |-> FALSE,
                         reportCount |-> 0]))
  /\ nextId' = nextId + 1
  /\ loc' = [loc EXCEPT ![p].found = NewId, ![p].commentId = NewId]
  /\ Goto(p, "commentHook_count")
  /\ UNCHANGED <<users, recommendations, reviews, books, likes, follows, shares,
                 started, slots, last>>

\* addReply: this.replyCount += 1; await this.save().  save() writes the
\* modified path of the parent as it was loaded and rejects when the parent is
\* gone; the parent's post('save') hook then recounts its target.
AddReplyParentSave(p) ==
  /\ pc[p] = "addReply_parentSave"
  /\ LET id == loc[p].parentCommentId
     IN IF id \notin DOMAIN comments
          THEN /\ Respond(p, 500, FALSE, 0, FALSE)
               /\ UNCHANGED comments
          ELSE /\ comments' = [comments EXCEPT ![id] =
                                 CommentPreSave([@ EXCEPT !.replyCount = loc[p].m + 1])]
               /\ loc' = [loc EXCEPT ![p].flag = TRUE]
               /\ Goto(p, "commentHook_count")
               /\ UNCHANGED last
  /\ UNCHANGED <<users, recommendations, reviews, books, likes, follows, shares,
                 nextId, started, slots>>

\* addReply: return reply
AddReplyRespond(p) ==
  /\ pc[p] = "addReply_respond"
  /\ Respond(p, 200, TRUE, 0, FALSE)
  /\ UNCHANGED <<db, nextId, started, slots>>

\* report(): if (this.reportCount >= 5) this.isModerated = true
ReportThreshold == 5

\* report() calls made on one comment
MaxReports == 6

\* comment.report(reason) on a loaded Comment document
ReportCall(p) ==
  \E commentId \in DOMAIN comments :
    LET c == comments[commentId]
    IN /\ c.reportCount < MaxReports
       /\ Enter(p, "report_save",
                [kind |-> "report", targetType |-> c.targetType,
                 targetId |-> c.targetId, commentId |-> commentId,
                 found |-> commentId, m |-> c.reportCount,
                 existedBefore |-> c.isModerated,
                 cachedBefore |-> Cached(CommentTargetModel(c.targetType),
                                         c.targetId, "commentCount")])
       /\ UNCHANGED <<db, nextId, started, slots, last>>

\* the document report() saves: reportCount one above the loaded one, and
\* isModerated set once that reaches the threshold
ReportedAboveThreshold(doc, reportCount) ==
  [doc EXCEPT !.reportCount = reportCount + 1,
              !.isModerated = IF reportCount + 1 > ReportThreshold THEN TRUE ELSE @]

Reported(doc, reportCount) ==
  [doc EXCEPT !.reportCount = reportCount + 1,
              !.isModerated = IF reportCount + 1 >= ReportThreshold THEN TRUE ELSE @]

\* report: this.reportCount += 1; ...; await this.save()  (pre('save') runs;
\* save() rejects when the comment is gone)
ReportSave(p) ==
  /\ pc[p] = "report_save"
  /\ LET id == loc[p].found
     IN IF id \notin DOMAIN comments
          THEN /\ Respond(p, 500, FALSE, 0, FALSE)
               /\ UNCHANGED comments
          ELSE /\ comments' = [comments EXCEPT ![id] =
                                 CommentPreSave(Reported(@, loc[p].m))]
               /\ Goto(p, "commentHook_count")
               /\ UNCHANGED <<loc, last>>
  /\ UNCHANGED <<users, recommendations, reviews, books, likes, follows, shares,
                 nextId, started, slots>>

\* report: return this
ReportRespond(p) ==
  /\ pc[p] = "report_respond"
  /\ Respond(p, 200, FALSE, loc[p].m + 1, FALSE)
  /\ UNCHANGED <<db, nextId, started, slots>>

\* =================================================================== Share
ShareTargetTypes == {"recommendation", "review", "book"}

\* Share.countDocuments({ targetType, targetId })
ShareCountOf(targetType, targetId) ==
  countDocuments({d \in DOMAIN shares :
      LET sh == shares[d] IN sh.targetType = targetType /\ sh.targetId = targetId})

\* the switch of updateTargetShareCount
ShareTargetModel(targetType) ==
  CASE targetType = "recommendation" -> "BookRecommendation"
    [] targetType = "review" -> "Review"
    [] targetType = "book" -> "Book"
    [] OTHER -> "none"

\* shareSchema.shareType / platform enum, the lists of validateShare
ShareTypes == {"internal", "external", "social"}

Platforms == {"twitter", "facebook", "linkedin", "email", "copy_link", "internal_feed"}

\* the platforms the specification lists for an external share
ExternalPlatforms == {"twitter", "facebook", "linkedin", "email", "copy_link"}

\* the day a request is served on (timestamps count days)
Today == 8

\* request bodies of POST /api/social/share: "none" is an absent field, <<>> an
\* absent message
ShareBodies ==
  {[shareType |-> "none", platform |-> "none", message |-> <<>>],
   [shareType |-> "external", platform |-> "twitter", message |-> <<" ", "h">>],
   [shareType |-> "external", platform |-> "none", message |-> <<>>],
   [shareType |-> "external", platform |-> "myspace", message |-> <<>>]}

\* validateShare: each field is optional, and checked against its list if present
validateShare(body) ==
  /\ body.shareType = "none" \/ body.shareType \in ShareTypes
  /\ body.platform = "none" \/ body.platform \in Platforms

\* createShare: new this({ userId, targetType, targetId, shareType, platform,
\* message, ... }) with the schema defaults, shareType: shareType || 'internal'
\* and the message trimmed
ShareDoc(userId, targetType, targetId, body) ==
  [userId |-> userId, targetType |-> targetType, targetId |-> targetId,
   shareType |-> IF body.shareType = "none" THEN "internal" ELSE body.shareType,
   platform |-> body.platform, message |-> Trim(body.message),
   clickCount |-> 0, isPublic |-> TRUE, createdAt |-> Today]

\* generateShareUrl(baseUrl): the segments of the URL, joined by '/'
DefaultBaseUrl == "http://localhost:5174"

generateShareUrlSwapped(share, baseUrl) ==
  CASE share.targetType = "recommendation" -> <<baseUrl, "review", share.targetId>>
    [] share.targetType = "review" -> <<baseUrl, "recommendation", share.targetId>>
    [] share.targetType = "book" -> <<baseUrl, "book", share.targetId>>
    [] OTHER -> <<baseUrl>>

generateShareUrl(share, baseUrl) ==
  CASE share.targetType = "recommendation" -> <<baseUrl, "recommendation", share.targetId>>
    [] share.targetType = "review" -> <<baseUrl, "review", share.targetId>>
    [] share.targetType = "book" -> <<baseUrl, "book", share.targetId>>
    [] OTHER -> <<baseUrl>>

\* generateShareText(): the message if it is truthy (not empty), else the text
\* of the targetType (a text is a sequence of pieces of text)
generateShareText(share) ==
  IF share.message # <<>> THEN share.message
  ELSE CASE share.targetType = "recommendation" ->
              <<"Check out this amazing book recommendation!">>
         [] share.targetType = "review" -> <<"Read this insightful book review!">>
         [] share.targetType = "book" -> <<"Discover this great book!">>
         [] OTHER -> <<"Check this out on our book recommendation app!">>

\* POST /api/social/share: validateShare, then Share.createShare is entered
ShareRoute(p) ==
  \E userId \in UserIds, targetType \in ShareTargetTypes, body \in ShareBodies :
    \E targetId \in TargetIds(targetType) :
      /\ Arrive(p, IF validateShare(body) THEN "createShare" ELSE "share_invalid",
                [kind |-> "share", userId |-> userId, targetType |-> targetType,
                 targetId |-> targetId, opts |-> body,
                 countBefore |-> ShareCountOf(targetType, targetId),
                 cachedBefore |-> Cached(ShareTargetModel(targetType), targetId,
                                         "shareCount"),
                 drift |-> Cached(ShareTargetModel(targetType), targetId, "shareCount")
                             # ShareCountOf(targetType, targetId)])
      /\ UNCHANGED <<db, nextId, slots, last>>

\* 400 'Validation failed'
ShareInvalid(p) ==
  /\ pc[p] = "share_invalid"
  /\ Respond(p, 400, FALSE, 0, FALSE)
  /\ UNCHANGED <<db, nextId, started, slots>>

\* createShare: const share = new this({...}); await share.save()
CreateShareSave(p) ==
  /\ pc[p] = "createShare"
  /\ shares' = With(shares, NewId,
                    ShareDoc(loc[p].userId, loc[p].targetType, loc[p].targetId,
                             loc[p].opts))
  /\ nextId' = nextId + 1
  /\ loc' = [loc EXCEPT ![p].found = NewId, ![p].commentId = NewId]
  /\ Goto(p, "shareHook_count")
  /\ UNCHANGED <<users, recommendations, reviews, books, comments, likes, follows,
                 started, slots, last>>

\* updateTargetShareCount: const shareCount = await Share.countDocuments(...)
ShareHookCount(p) ==
  /\ pc[p] = "shareHook_count"
  /\ loc' = [loc EXCEPT ![p].n = ShareCountOf(loc[p].targetType, loc[p].targetId)]
  /\ Goto(p, "shareHook_update")
  /\ UNCHANGED <<db, nextId, started, slots, last>>

\* updateTargetShareCount: await Model.findByIdAndUpdate(targetId, { shareCount })
ShareHookUpdate(p) ==
  /\ pc[p] = "shareHook_update"
  /\ UpdateTarget(ShareTargetModel(loc[p].targetType), loc[p].targetId,
                  "shareCount", loc[p].n)
  /\ Goto(p, IF loc[p].kind = "click" THEN "click_respond" ELSE "share_respond")
  /\ UNCHANGED <<users, likes, follows, shares, nextId, loc, started, slots, last>>

\* route: share.generateShareUrl(); share.generateShareText(); res.status(201)
\* (share is the document createShare returned)
ShareRespond(p) ==
  /\ pc[p] = "share_respond"
  /\ LET share == ShareDoc(loc[p].userId, loc[p].targetType, loc[p].targetId,
                           loc[p].opts)
     IN last' = [Response(p, 201, TRUE, 0, FALSE) EXCEPT
                   !.result = <<generateShareUrl(share, DefaultBaseUrl),
                                generateShareText(share)>>]
  /\ pc' = [pc EXCEPT ![p] = "idle"]
  /\ loc' = [loc EXCEPT ![p] = IdleLoc]
  /\ UNCHANGED <<db, nextId, started, slots>>

\* ------------------------------------------------------------ click tracking
\* an id that no Share document has
MissingShareId == 59

\* POST /api/social/shares/:shareId/click
ClickRoute(p) ==
  \E shareId \in DOMAIN shares \cup {MissingShareId} :
    /\ Arrive(p, "click_findById", [kind |-> "click", commentId |-> shareId])
    /\ UNCHANGED <<db, nextId, slots, last>>

\* route: const share = await Share.findById(shareId); if (!share) 404
ClickFindById(p) ==
  /\ pc[p] = "click_findById"
  /\ IF loc[p].commentId \in DOMAIN shares
       THEN /\ loc' = [loc EXCEPT
                        ![p].found = loc[p].commentId,
                        ![p].targetType = shares[loc[p].commentId].targetType,
                        ![p].targetId = shares[loc[p].commentId].targetId,
                        ![p].m = shares[loc[p].commentId].clickCount]
            /\ Goto(p, "click_save")
            /\ UNCHANGED last
       ELSE Respond(p, 404, FALSE, 0, FALSE)
  /\ UNCHANGED <<db, nextId, started, slots>>

\* the clickCount that incrementClickCount saves: this.clickCount += 1 on the
\* loaded document, written as the new value of the path
ClickCountSaved(loaded, stored) == loaded + 1

\* incrementClickCount: this.clickCount += 1; await this.save()
\* (no operation deletes a Share document, so the save finds its document)
ClickSave(p) ==
  /\ pc[p] = "click_save"
  /\ shares' = [shares EXCEPT ![loc[p].found].clickCount =
                   ClickCountSaved(loc[p].m, shares[loc[p].found].clickCount)]
  /\ Goto(p, "shareHook_count")
  /\ UNCHANGED <<users, recommendations, reviews, books, comments, likes, follows,
                 nextId, loc, started, slots, last>>

\* route: res.json({ ..., clickCount: share.clickCount })
ClickRespond(p) ==
  /\ pc[p] = "click_respond"
  /\ Respond(p, 200, FALSE, loc[p].m + 1, FALSE)
  /\ UNCHANGED <<db, nextId, started, slots>>

\* ----------------------------------------------------------- trending shares
\* the options getTrendingShares is called with ("none": no targetType)
TrendingOptions ==
  [timeframe : {1, 7}, limit : {1, 20}, targetType : {"none", "book"}]

\* getTrendingShares $match: createdAt $gte startDate (timeframe days before
\* now), isPublic true, and the targetType if one is given
TrendingMatch(options) ==
  {d \in DOMAIN shares :
     /\ shares[d].createdAt >= Today - options.timeframe
     /\ shares[d].isPublic
     /\ options.targetType # "none" => shares[d].targetType = options.targetType}

\* $sum over the documents of a group
RECURSIVE SumClicks(_)
SumClicks(ds) ==
  IF ds = {} THEN 0
  ELSE LET d == CHOOSE x \in ds : TRUE
       IN shares[d].clickCount + SumClicks(ds \ {d})

\* $addFields trendingScore: $add [ $multiply [ '$shareCount', 2 ], '$totalClicks' ]
trendingScoreUnweighted(shareCount, totalClicks) == shareCount + totalClicks

trendingScore(shareCount, totalClicks) == shareCount * 2 + totalClicks

\* $group by { targetType, targetId }: shareCount, totalClicks; $addFields
TrendingGroup(options, key) ==
  LET ds == {d \in TrendingMatch(options) :
               shares[d].targetType = key[1] /\ shares[d].targetId = key[2]}
  IN [_id |-> key, shareCount |-> Cardinality(ds), totalClicks |-> SumClicks(ds),
      trendingScore |-> trendingScore(Cardinality(ds), SumClicks(ds))]

TrendingGroups(options) ==
  {TrendingGroup(options, <<shares[d].targetType, shares[d].targetId>>) :
     d \in TrendingMatch(options)}

\* $sort { trendingScore: -1 }, $limit: the results the pipeline can give (groups
\* of equal score come in any order; the $lookup stages drop no group)
getTrendingShares(options) ==
  LET groups == TrendingGroups(options)
      n == IF options.limit < Cardinality(groups) THEN options.limit
                                                  ELSE Cardinality(groups)
  IN {r \in [1 .. n -> groups] :
        /\ \A i, j \in 1 .. n :
             i < j => r[i] # r[j] /\ r[i].trendingScore >= r[j].trendingScore
        /\ \A g \in groups \ {r[i] : i \in 1 .. n} :
              \A i \in 1 .. n : r[i].trendingScore >= g.trendingScore}

\* Share.getTrendingShares(options) is called
TrendingCall(p) ==
  \E options \in TrendingOptions :
    /\ Enter(p, "trending_aggregate", [kind |-> "getTrendingShares", opts |-> options])
    /\ UNCHANGED <<db, nextId, started, slots, last>>

\* return this.aggregate([...])
TrendingAggregate(p) ==
  /\ pc[p] = "trending_aggregate"
  /\ \E result \in getTrendingShares(loc[p].opts) : RespondResult(p, result)
  /\ UNCHANGED <<db, nextId, started, slots>>

\* ================================================================= Profile
\* a User document as registration stores it (schema defaults; "none": no bio)
NewUser ==
  [name |-> <<"A", "l">>, bio |-> "none", followersCount |-> 0,
   followingCount |-> 0, recommendationsCount |-> 0, likesReceivedCount |-> 0]

\* the value a request body gives to a counter
BodyCount == 7

\* request bodies of PUT /api/users/profile
ProfileBodies ==
  {[bio |-> "reader"],
   [name |-> <<"B">>],
   [bio |-> "reader", followersCount |-> BodyCount, followingCount |-> BodyCount],
   [recommendationsCount |-> BodyCount],
   [likesReceivedCount |-> BodyCount]}

\* validateProfileUpdate: name, if present, has 2 to 50 characters
validateProfileUpdate(body) ==
  "name" \in DOMAIN body => Len(body.name) >= 2 /\ Len(body.name) <= 50

\* delete updateData.email / password / followersCount / followingCount
SensitiveFields == {"email", "password", "followersCount", "followingCount"}

updateData(body) == [f \in DOMAIN body \ SensitiveFields |-> body[f]]

\* User.findByIdAndUpdate(userId, update): the declared paths of update are set
UpdateDocument(doc, model, update) ==
  [f \in DOMAIN doc |->
     IF f \in DOMAIN update /\ f \in SchemaPaths(model) THEN update[f] ELSE doc[f]]

\* PUT /api/users/profile
ProfileRoute(p) ==
  \E userId \in UserIds, body \in ProfileBodies :
    /\ Arrive(p, IF validateProfileUpdate(body) THEN "profile_update"
                                                ELSE "profile_invalid",
              [kind |-> "profile", userId |-> userId, opts |-> body])
    /\ UNCHANGED <<db, nextId, slots, last>>

\* 400 'Validation failed'
ProfileInvalid(p) ==
  /\ pc[p] = "profile_invalid"
  /\ Respond(p, 400, FALSE, 0, FALSE)
  /\ UNCHANGED <<db, nextId, started, slots>>

\* const user = await User.findByIdAndUpdate(userId, updateData, ...); 404 | 200
ProfileUpdate(p) ==
  /\ pc[p] = "profile_update"
  /\ IF loc[p].userId \in DOMAIN users
       THEN /\ users' = [users EXCEPT ![loc[p].userId] =
                           UpdateDocument(@, "User", updateData(loc[p].opts))]
            /\ Respond(p, 200, FALSE, 0, FALSE)
       ELSE /\ Respond(p, 404, FALSE, 0, FALSE)
            /\ UNCHANGED users
  /\ UNCHANGED <<recommendations, reviews, books, comments, likes, follows,
                 shares, nextId, started, slots>>

\* ===================================================== embedded like list
\* bookRecommendationSchema defaults: likes [], comments [], isPublic true; __v
\* is the version key mongoose adds
NewRecommendation ==
  [likes |-> <<>>, comments |-> <<>>, viewCount |-> 0, isPublic |-> TRUE,
   __v |-> 0]

\* a :id that no recommendation has
MissingRecId == 19

\* methods.isLikedBy: this.likes.some(like => like.userId.toString() === userId)
isLikedBy(list, userId) == \E i \in 1 .. Len(list) : list[i] = userId

\* methods.addLike: if (!this.isLikedBy(userId)) this.likes.push({ userId })
addLike(list, userId) ==
  IF ~isLikedBy(list, userId) THEN Append(list, userId) ELSE list

\* methods.removeLike: this.likes = this.likes.filter(like => like.userId !== userId)
removeLike(list, userId) ==
  LET keep(u) == u # userId IN SelectSeq(list, keep)

\* save() after likes.push(): the update is { $push: { likes }, $inc: { __v: 1 } }
\* with the filter { _id }, applied to the stored array
SavePushed(stored, loaded, userId) ==
  IF addLike(loaded, userId) = loaded THEN stored
  ELSE [stored EXCEPT !.likes = Append(@, userId), !.__v = @ + 1]

\* save() after this.likes = [...]: the update is { $set: { likes }, $inc: { __v: 1 } }
\* with the filter { _id, __v }
SaveAssigned(stored, list) == [stored EXCEPT !.likes = list, !.__v = @ + 1]

\* POST /api/recommendations/:id/like
RecLikeRoute(p) ==
  \E userId \in UserIds, id \in RecIds \cup {MissingRecId} :
    /\ Arrive(p, "recLike_findById",
              [kind |-> "recLike", userId |-> userId,
               targetType |-> "recommendation", targetId |-> id])
    /\ UNCHANGED <<db, nextId, slots, last>>

\* route: await BookRecommendation.findById(req.params.id); 404 without it, 403
\* when it is private; const isLiked = recommendation.isLikedBy(req.user.id)
RecLikeFindById(p) ==
  /\ pc[p] = "recLike_findById"
  /\ IF loc[p].targetId \notin DOMAIN recommendations
       THEN Respond(p, 404, FALSE, 0, FALSE)
     ELSE IF ~recommendations[loc[p].targetId].isPublic
       THEN Respond(p, 403, FALSE, 0, FALSE)
     ELSE LET doc == recommendations[loc[p].targetId]
          IN /\ loc' = [loc EXCEPT ![p].opts = doc.likes,
                                   ![p].n = doc.__v,
                                   ![p].flag = isLikedBy(doc.likes, loc[p].userId),
                                   ![p].existedBefore =
                                      isLikedBy(doc.likes, loc[p].userId)]
             /\ Goto(p, "recLike_save")
             /\ UNCHANGED last
  /\ UNCHANGED <<db, nextId, started, slots>>

\* route: await recommendation.removeLike(id) | addLike(id); res.json({ liked,
\* likeCount: recommendation.likeCount }).  save() rejects (500) when no stored
\* document matches the filter of its update.
RecLikeSave(p) ==
  /\ pc[p] = "recLike_save"
  /\ LET id == loc[p].targetId
         userId == loc[p].userId
         loaded == loc[p].opts
     IN IF loc[p].flag
          THEN IF id \in DOMAIN recommendations /\ recommendations[id].__v = loc[p].n
                 THEN /\ recommendations' =
                           [recommendations EXCEPT ![id] =
                              SaveAssigned(@, removeLike(loaded, userId))]
                      /\ Respond(p, 200, FALSE, Len(removeLike(loaded, userId)), FALSE)
                 ELSE /\ Respond(p, 500, FALSE, 0, FALSE)
                      /\ UNCHANGED recommendations
          ELSE IF id \in DOMAIN recommendations
                 THEN /\ recommendations' =
                           [recommendations EXCEPT ![id] = SavePushed(@, loaded, userId)]
                      /\ Respond(p, 200, TRUE, Len(addLike(loaded, userId)), FALSE)
                 ELSE /\ Respond(p, 500, FALSE, 0, FALSE)
                      /\ UNCHANGED recommendations
  /\ UNCHANGED <<users, reviews, books, comments, likes, follows, shares, nextId,
                 started, slots>>

\* ============================================================ failing hooks
\* await Model.findByIdAndUpdate(targetId, { path: val }) throws: nothing is
\* written
FailedUpdateLands(coll, model, id, path, val) ==
  findByIdAndUpdate(coll, model, id, path, val)

FailedUpdate(coll, model, id, path, val) == coll

\* UpdateTarget with the update throwing
UpdateTargetThrows(model, id, path, val) ==
  /\ recommendations' = IF model = "BookRecommendation"
                          THEN FailedUpdate(recommendations, model, id, path, val)
                          ELSE recommendations
  /\ comments' = IF model = "Comment"
                   THEN FailedUpdate(comments, model, id, path, val)
                   ELSE comments
  /\ reviews' = IF model = "Review"
                  THEN FailedUpdate(reviews, model, id, path, val)
                  ELSE reviews
  /\ books' = IF model = "Book"
                THEN FailedUpdate(books, model, id, path, val)
                ELSE books

\* where a call goes on once the catch of its hook has logged the error
AfterHook(l) ==
  CASE l.kind = "like" -> "like_respond"
    [] l.kind = "follow" -> "follow_respond"
    [] l.kind = "share" -> "share_respond"
    [] l.kind = "click" -> "click_respond"
    [] l.kind = "comment" -> "comment_respond"
    [] l.kind = "report" -> "report_respond"
    [] l.kind = "addReply" -> IF l.flag THEN "addReply_respond" ELSE "addReply_parentSave"
    [] OTHER -> "deleteComment_respond"

\* likeSchema.post('save' | 'deleteOne'): updateTargetLikeCount throws, at its
\* countDocuments or at its findByIdAndUpdate; catch (error) { console.error }
LikeHookThrow(p) ==
  /\ pc[p] \in {"likeHook_count", "likeHook_update"}
  /\ IF pc[p] = "likeHook_update"
       THEN UpdateTargetThrows(LikeTargetModel(loc[p].targetType), loc[p].targetId,
                               "likeCount", loc[p].n)
       ELSE UNCHANGED <<recommendations, comments, reviews, books>>
  /\ loc' = [loc EXCEPT ![p].failed = {"likeCount"}]
  /\ Goto(p, AfterHook(loc[p]))
  /\ UNCHANGED <<users, likes, follows, shares, nextId, started, slots, last>>

\* shareSchema.post('save'): updateTargetShareCount throws; the catch logs it
ShareHookThrow(p) ==
  /\ pc[p] \in {"shareHook_count", "shareHook_update"}
  /\ IF pc[p] = "shareHook_update"
       THEN UpdateTargetThrows(ShareTargetModel(loc[p].targetType), loc[p].targetId,
                               "shareCount", loc[p].n)
       ELSE UNCHANGED <<recommendations, comments, reviews, books>>
  /\ loc' = [loc EXCEPT ![p].failed = {"shareCount"}]
  /\ Goto(p, AfterHook(loc[p]))
  /\ UNCHANGED <<users, likes, follows, shares, nextId, started, slots, last>>

\* commentSchema.post('save' | 'deleteOne'): updateTargetCommentCount throws, or
\* the findById / save of the parent comment does; the one catch of the hook
\* logs it, so what is left of the hook (the parent's replyCount) is skipped.
\* Inside the post('save') hook of the parent (flag) the counter that fails is
\* the commentCount of the parent's target.
CommentHookThrow(p) ==
  /\ pc[p] \in {"commentHook_count", "commentHook_update", "deleteHook_parent",
                "deleteHook_parentSave"}
  /\ IF pc[p] = "commentHook_update"
       THEN UpdateTargetThrows(CommentTargetModel(loc[p].targetType),
                               loc[p].targetId, "commentCount", loc[p].n)
       ELSE UNCHANGED <<recommendations, comments, reviews, books>>
  /\ loc' = [loc EXCEPT ![p].failed =
                IF pc[p] \in {"deleteHook_parent", "deleteHook_parentSave"}
                  THEN {"replyCount"}
                ELSE IF loc[p].kind = "deleteComment" /\ ~loc[p].flag
                  THEN {"commentCount", "replyCount"}
                ELSE IF loc[p].kind = "deleteComment"
                  THEN {"parent.commentCount"}
                ELSE {"commentCount"}]
  /\ Goto(p, AfterHook(loc[p]))
  /\ UNCHANGED <<users, likes, follows, shares, nextId, started, slots, last>>

\* followSchema.post('save' | 'deleteOne'): updateUserFollowCounts throws at
\* one of its countDocuments (nothing has been written yet)
FollowHookCountThrow(p) ==
  /\ pc[p] \in {"followHook_following", "followHook_followers"}
  /\ loc' = [loc EXCEPT ![p].failed = {"followingCount", "followersCount"}]
  /\ Goto(p, AfterHook(loc[p]))
  /\ UNCHANGED <<db, nextId, started, slots, last>>

\* updateUserFollowCounts: one of the two User.findByIdAndUpdate of Promise.all
\* throws; the other one, already sent, still reaches the database
FollowHookUpdateThrow(p) ==
  /\ pc[p] = "followHook_update"
  /\ \E path \in loc[p].pending :
       /\ users' = FailedUpdate(users, "User",
                     FollowCountsWrite(loc[p].userId, loc[p].targetId, path), path,
                     IF path = "followingCount" THEN loc[p].n ELSE loc[p].m)
       /\ loc' = [loc EXCEPT ![p].pending = @ \ {path},
                             ![p].failed = @ \cup {path}]
       /\ Goto(p, IF loc[p].pending = {path} THEN "follow_respond"
                                             ELSE "followHook_update")
  /\ UNCHANGED <<recommendations, reviews, books, comments, likes, follows,
                 shares, nextId, started, slots, last>>

\* ================================================================ the system
InitialComment ==
  [userId |-> 1, targetType |-> "recommendation", targetId |-> 11,
   parentCommentId |-> None, text |-> <<"o", "k">>, replyCount |-> 0,
   likeCount |-> 0, isPublic |-> TRUE, isModerated |-> FALSE, reportCount |-> 0]

\* the collections but Comment, and no request in flight
InitRest ==
  /\ users = [u \in UserIds |-> NewUser]
  /\ recommendations = [r \in RecIds |-> NewRecommendation]
  /\ reviews = [r \in ReviewIds |-> [helpfulCount |-> 0]]
  /\ books = [b \in BookIds |-> [viewCount |-> 0]]
  /\ likes = [d \in {} |-> 0]
  /\ follows = [d \in {} |-> 0]
  /\ nextId = 1
  /\ pc = [p \in Procs |-> "idle"]
  /\ loc = [p \in Procs |-> IdleLoc]
  /\ started = 0
  /\ last = NoResponse

InitDb ==
  /\ InitRest
  /\ comments = [c \in {41} |-> InitialComment]
  /\ shares = [d \in {} |-> 0]

\* the texts of the comments that report() is called on
ReportTexts == Texts \cup {<<"f", "a", "k", "E", " ">>}

\* a comment as POST /api/social/comment stored it, before any report
StoredComment(text, parentCommentId) ==
  CommentPreSave([InitialComment EXCEPT !.text = text,
                                        !.parentCommentId = parentCommentId])

\* two stored comments, the second one possibly a reply to the first; report()
\* calls run one at a time
InitReport ==
  /\ InitRest
  /\ slots = 1
  /\ shares = [d \in {} |-> 0]
  /\ \E t1 \in ReportTexts, t2 \in ReportTexts, parent \in {None, 41} :
       comments = (41 :> StoredComment(t1, None)) @@ (42 :> StoredComment(t2, parent))

\* the users and follows of the graphs that suggestions are computed on
NGraphUsers == 5
MaxFollows == 5

FollowPairs == {e \in (1 .. NGraphUsers) \X (1 .. NGraphUsers) : e[1] # e[2]}

\* the Follow collection that toggleFollow calls leave for the pairs in edges:
\* one accepted document per pair, none from a user to itself
FollowsOf(edges) ==
  [d \in {200 + 10 * e[1] + e[2] : e \in edges} |->
     [followerId |-> (d - 200) \div 10, followingId |-> (d - 200) % 10,
      status |-> "accepted"]]

\* NGraphUsers users with up to MaxFollows follows among them; suggestions are
\* asked for one at a time
InitGraph ==
  /\ users = [u \in 1 .. NGraphUsers |-> NewUser]
  /\ recommendations = [r \in RecIds |-> NewRecommendation]
  /\ reviews = [r \in ReviewIds |-> [helpfulCount |-> 0]]
  /\ books = [b \in BookIds |-> [viewCount |-> 0]]
  /\ comments = [c \in {41} |-> InitialComment]
  /\ likes = [d \in {} |-> 0]
  /\ \E edges \in {E \in SUBSET FollowPairs : Cardinality(E) <= MaxFollows} :
       follows = FollowsOf(edges)
  /\ shares = [d \in {} |-> 0]
  /\ nextId = 1
  /\ pc = [p \in Procs |-> "idle"]
  /\ loc = [p \in Procs |-> IdleLoc]
  /\ started = 0
  /\ slots = 1
  /\ last = NoResponse

\* two shares stored by POST /api/social/share, not clicked yet; the server
\* takes up to NProcs requests at once
InitClicks ==
  /\ InitRest
  /\ slots = NProcs
  /\ comments = [c \in {41} |-> InitialComment]
  /\ shares = (51 :> ShareDoc(1, "recommendation", 11, 
                              [shareType |-> "none", platform |-> "none",
                               message |-> <<>>]))
              @@ (52 :> ShareDoc(2, "review", 21,
                                 [shareType |-> "external", platform |-> "twitter",
                                  message |-> <<>>]))

\* the shares that trending is computed on: StoredShares documents, each of one
\* of three targets, created outside the widest window, on its first day or
\* today, and clicked never or ClicksBefore times
StoredShares == 3
ClicksBefore == 3

ShareTargets == {<<"recommendation", 11>>, <<"review", 21>>, <<"book", 31>>}

AgedShare(target, createdAt, clickCount) ==
  [ShareDoc(1, target[1], target[2],
            [shareType |-> "none", platform |-> "none", message |-> <<>>])
     EXCEPT !.createdAt = createdAt, !.clickCount = clickCount]

InitTrending ==
  /\ InitRest
  /\ comments = [c \in {41} |-> InitialComment]
  /\ slots = 1
  /\ shares \in [50 + 1 .. 50 + StoredShares ->
                   {AgedShare(target, createdAt, clickCount) :
                      target \in ShareTargets, createdAt \in {0, Today - 7, Today},
                      clickCount \in {0, ClicksBefore}}]

\* recommendation 11, which clients still name, is not stored any more: the
\* request that removed it was the first of the behaviour; requests are issued
\* one at a time
InitMissing ==
  /\ users = [u \in UserIds |-> NewUser]
  /\ recommendations = [r \in {} |-> 0]
  /\ reviews = [r \in ReviewIds |-> [helpfulCount |-> 0]]
  /\ books = [b \in BookIds |-> [viewCount |-> 0]]
  /\ comments = [c \in {41} |-> InitialComment]
  /\ likes = [d \in {} |-> 0]
  /\ follows = [d \in {} |-> 0]
  /\ shares = [d \in {} |-> 0]
  /\ nextId = 1
  /\ pc = [p \in Procs |-> "idle"]
  /\ loc = [p \in Procs |-> IdleLoc]
  /\ started = 1
  /\ slots = 1
  /\ last = NoResponse

\* the stored documents at server start, after one request that was answered
\* 400; requests are issued one at a time
InitHooks ==
  /\ users = [u \in UserIds |-> NewUser]
  /\ recommendations = [r \in RecIds |-> NewRecommendation]
  /\ reviews = [r \in ReviewIds |-> [helpfulCount |-> 0]]
  /\ books = [b \in BookIds |-> [viewCount |-> 0]]
  /\ comments = [c \in {41} |-> InitialComment]
  /\ likes = [d \in {} |-> 0]
  /\ follows = [d \in {} |-> 0]
  /\ shares = [d \in {} |-> 0]
  /\ nextId = 1
  /\ pc = [p \in Procs |-> "idle"]
  /\ loc = [p \in Procs |-> IdleLoc]
  /\ started = 1
  /\ slots = 1
  /\ last = NoResponse

\* the server takes up to NProcs requests at once
Init == InitDb /\ slots = NProcs

\* requests are issued one at a time, each awaited before the next
InitSerial == InitDb /\ slots = 1

NextLike ==
  \E p \in Procs :
    \/ LikeRoute(p) \/ LikeInvalid(p) \/ ToggleLikeFindOne(p) \/ ToggleLikeWrite(p)
    \/ LikeHookCount(p) \/ LikeHookUpdate(p) \/ LikeRespond(p)

NextFollow ==
  \E p \in Procs :
    \/ FollowRoute(p) \/ FollowInvalid(p) \/ ToggleFollowFindOne(p)
    \/ ToggleFollowWrite(p) \/ FollowHookCountFollowing(p)
    \/ FollowHookCountFollowers(p) \/ FollowHookUpdate(p) \/ FollowRespond(p)

NextFollowQuery ==
  \E p \in Procs :
    \/ SuggestedFollowsRoute(p) \/ SuggestedFollowsFind(p)
    \/ SuggestedFollowsAggregate(p)

NextComment ==
  \E p \in Procs :
    \/ CommentRoute(p) \/ CommentSave(p) \/ CommentHookCount(p)
    \/ CommentHookUpdate(p) \/ CommentRespond(p)
    \/ DeleteCommentRoute(p) \/ DeleteCommentFindById(p) \/ DeleteCommentDelete(p)
    \/ DeleteHookParent(p) \/ DeleteHookParentSave(p) \/ DeleteCommentRespond(p)

\* the Comment model's methods that no route calls
NextCommentMethods ==
  \E p \in Procs :
    \/ AddReplyCall(p) \/ AddReplySave(p) \/ AddReplyParentSave(p)
    \/ AddReplyRespond(p)

NextReport ==
  \E p \in Procs :
    \/ ReportCall(p) \/ ReportSave(p) \/ ReportRespond(p)
    \/ CommentHookCount(p) \/ CommentHookUpdate(p)

NextCommentQuery ==
  \E p \in Procs :
    \/ GetCommentsRoute(p) \/ GetCommentsRespond(p)
    \/ GetRepliesCall(p) \/ GetRepliesRespond(p)

NextShare ==
  \E p \in Procs :
    \/ ShareRoute(p) \/ ShareInvalid(p) \/ CreateShareSave(p) \/ ShareHookCount(p)
    \/ ShareHookUpdate(p) \/ ShareRespond(p)

NextClick ==
  \E p \in Procs :
    \/ ClickRoute(p) \/ ClickFindById(p) \/ ClickSave(p) \/ ClickRespond(p)
    \/ ShareHookCount(p) \/ ShareHookUpdate(p)

NextProfile ==
  \E p \in Procs : ProfileRoute(p) \/ ProfileInvalid(p) \/ ProfileUpdate(p)

NextRecLike ==
  \E p \in Procs : RecLikeRoute(p) \/ RecLikeFindById(p) \/ RecLikeSave(p)

NextHookThrow ==
  \E p \in Procs :
    \/ LikeHookThrow(p) \/ ShareHookThrow(p) \/ CommentHookThrow(p)
    \/ FollowHookCountThrow(p) \/ FollowHookUpdateThrow(p)

NextTrending == \E p \in Procs : TrendingCall(p) \/ TrendingAggregate(p)

Next ==
  \/ NextClick \/ NextTrending \/ NextProfile \/ NextHookThrow \/ NextRecLike
  \/ NextLike \/ NextFollow \/ NextComment \/ NextShare
  \/ NextCommentMethods \/ NextReport \/ NextCommentQuery \/ NextFollowQuery

\* every request kind, requests overlapping
Spec == Init /\ [][Next]_vars
\* like requests, overlapping each other / one at a time
SpecLike == Init /\ [][NextLike]_vars
SpecLikeSerial == InitSerial /\ [][NextLike]_vars
\* follow requests, overlapping each other / one at a time
SpecFollow == Init /\ [][NextFollow]_vars
SpecFollowSerial == InitSerial /\ [][NextFollow]_vars
\* follow requests and suggestions, one at a time
SpecFollowQuery == InitSerial /\ [][NextFollow \/ NextFollowQuery]_vars
\* suggestions asked for on a follow graph, one at a time
SpecSuggest == InitGraph /\ [][NextFollowQuery]_vars
\* share requests, one at a time
SpecShareSerial == InitSerial /\ [][NextShare]_vars
\* click requests on stored shares, overlapping each other
SpecClicks == InitClicks /\ [][NextClick]_vars
\* getTrendingShares calls on stored shares, one at a time
SpecTrending == InitTrending /\ [][NextTrending]_vars
\* follow requests and profile updates, one at a time
SpecProfile == InitSerial /\ [][NextFollow \/ NextProfile]_vars
\* like, comment and share requests while a target is missing, one at a time
SpecMissingTarget == InitMissing /\ [][NextLike \/ NextComment \/ NextShare]_vars
\* likes of the embedded list, overlapping
SpecRecLike == Init /\ [][NextRecLike]_vars
\* like, follow, comment and share requests whose hooks may throw, one at a time
SpecHookFailures ==
  InitHooks /\ [][NextLike \/ NextFollow \/ NextComment \/ NextShare
                     \/ NextHookThrow]_vars
\* comment requests, one at a time
SpecCommentSerial == InitSerial /\ [][NextComment]_vars
\* comment requests and addReply calls, one at a time
SpecCommentMethods == InitSerial /\ [][NextComment \/ NextCommentMethods]_vars
\* report() calls on stored comments, one at a time
SpecReport == InitReport /\ [][NextReport]_vars
\* comment requests and listings, one at a time
SpecCommentQuery == InitSerial /\ [][NextComment \/ NextCommentQuery]_vars
\* the requests that maintain a counter of likes, shares or follows, one at a time
SpecCountersSerial == InitSerial /\ [][NextLike \/ NextShare \/ NextFollow]_vars

\* ==================================================================== claims
Completed(kind) == last.kind = kind /\ last.status = 200

\* C1 (as claimed; SpecLikeSerial): after toggleLike calls run one at a time with
\* their hooks, the likeCount cached on the target's document equals the number
\* of Like documents that reference the target, for every kind of target.
C1_CachedLikeCountIsLive ==
  (AllIdle /\ Completed("like")) =>
     Cached(LikeTargetModel(last.targetType), last.targetId, "likeCount")
       = getLikeCount(last.targetType, last.targetId)

\* C2 (as claimed; SpecLike): once toggleLike calls on a target whose steps
\* interleave, and all their hooks, have completed, the target's cached
\* likeCount equals the number of Like documents that reference it.  Stated for
\* the targets whose likeCount is a stored path (comments): there the formula
\* holds when the calls run one at a time, so a violation is the interleaving's.
C2_ConcurrentTogglesConverge ==
  (AllIdle /\ Completed("like") /\ last.targetType = "comment") =>
     Cached(LikeTargetModel(last.targetType), last.targetId, "likeCount")
       = getLikeCount(last.targetType, last.targetId)

\* C3 (SpecLike): in every reachable state the Like collection holds at most one
\* document per (userId, targetType, targetId), also when calls of the same
\* user on the same target overlap.
C3_OneLikePerTriple ==
  \A d1 \in DOMAIN likes, d2 \in DOMAIN likes :
    likes[d1] = likes[d2] => d1 = d2

\* C3 witness: two calls of one user on one target raced into the insert, the
\* unique index rejected the second, and one Like for the triple is stored.
C3_Witness ==
  /\ last.kind = "like" /\ last.dup
  /\ Cardinality(LikeFindOne(last.userId, last.targetType, last.targetId) \ {None}) = 1

\* C4 (as claimed; SpecLike): the call whose insert loses the unique-index race
\* completes as a success (no error response) and exactly one Like for the
\* triple exists afterwards.
C4_DuplicateInsertIsSuccess ==
  (last.kind = "like" /\ last.dup) =>
     /\ last.status = 200
     /\ Cardinality(LikeFindOne(last.userId, last.targetType, last.targetId) \ {None}) <= 1

\* C5 (SpecLikeSerial): two consecutive toggleLike(u, T) calls with nothing in
\* between answer opposite liked values, the first liked = true exactly when no
\* Like (u, T) existed before it, and they leave the existence of the Like and
\* the likeCount reported for T as before the first call; from likeCount 0 the
\* answers are {liked: true, likeCount: 1} then {liked: false, likeCount: 0}.
C5_SecondOfPair ==
  /\ Completed("like")
  /\ \E p \in Procs : pc[p] = "like_respond" /\ pc'[p] = "idle"
  /\ last'.userId = last.userId
  /\ last'.targetType = last.targetType
  /\ last'.targetId = last.targetId

C5_TogglePairRestores ==
  [][C5_SecondOfPair =>
       /\ last'.status = 200
       /\ last.flag = ~last.existedBefore
       /\ last'.flag = ~last.flag
       /\ last'.count = last.countBefore
       /\ (LikeFindOne(last.userId, last.targetType, last.targetId) # {None})'
            = last.existedBefore
       /\ getLikeCount(last.targetType, last.targetId)' = last.countBefore
       /\ (last.countBefore = 0 =>
             /\ last.flag /\ last.count = 1
             /\ ~last'.flag /\ last'.count = 0)]_vars

\* C5 witness: exactly two requests ran, a like and then the unlike of the same
\* user on the same target, and the second answered {liked: false, likeCount: 0}.
C5_Witness ==
  /\ AllIdle /\ started = 2 /\ Completed("like")
  /\ last.existedBefore /\ last.countBefore = 1
  /\ ~last.flag /\ last.count = 0

\* C6 (SpecFollow): a toggleFollow(u, u) request fails (400) in every state,
\* none of its steps changes a Follow document or a user's counters, and no
\* Follow document with followerId = followingId is ever stored.
C6_SelfFollowStep(p) ==
  /\ pc'[p] # pc[p]
  /\ \/ loc[p].kind = "follow" /\ loc[p].userId = loc[p].targetId
     \/ loc'[p].kind = "follow" /\ loc'[p].userId = loc'[p].targetId

C6_SelfFollowFails ==
  [][/\ \A p \in Procs :
          C6_SelfFollowStep(p) =>
            /\ follows' = follows
            /\ users' = users
            /\ (pc'[p] = "idle" => last'.status = 400 /\ last'.kind = "follow")
     /\ \A d \in DOMAIN follows' : follows'[d].followerId # follows'[d].followingId]_vars

\* C6 witness: a self-follow was refused while Follow documents exist.
C6_Witness ==
  /\ last.kind = "follow" /\ last.userId = last.targetId /\ last.status = 400
  /\ DOMAIN follows # {}

\* C7 (SpecFollow): in every reachable state there is at most one Follow
\* document per (followerId, followingId), also when calls of the same follower
\* on the same user overlap.
C7_OneFollowPerPair ==
  \A d1 \in DOMAIN follows, d2 \in DOMAIN follows :
    (/\ follows[d1].followerId = follows[d2].followerId
     /\ follows[d1].followingId = follows[d2].followingId) => d1 = d2

\* C7 witness: two calls of one follower on one user raced into the insert, the
\* unique index rejected the second, and one Follow for the pair is stored.
C7_Witness ==
  /\ last.kind = "follow" /\ last.dup
  /\ Cardinality(FollowFindOne(last.userId, last.targetId) \ {None}) = 1

\* C8 (SpecFollowSerial): after each toggleFollow(a, b) call, run one at a time with
\* its hook, b.followersCount is the number of accepted Follow documents with
\* followingId = b and a.followingCount the number with followerId = a.
C8_FollowCountsAreLive ==
  (AllIdle /\ Completed("follow")) =>
     /\ users[last.targetId].followersCount = FollowersCountOf(last.targetId)
     /\ users[last.userId].followingCount = FollowingCountOf(last.userId)
     /\ last.count = users[last.targetId].followersCount

\* C8 witness: A follows B, C follows B, A unfollows B: B.followersCount is 1
\* after having been 2.
C8_Witness ==
  /\ AllIdle /\ started = 3 /\ Completed("follow")
  /\ ~last.flag /\ last.countBefore = 2
  /\ users[last.targetId].followersCount = 1

\* C9 (as claimed; SpecCountersSerial): when a cached likeCount, shareCount or
\* followersCount/followingCount differs from the live count, the next like,
\* share or follow write on that target that runs to completion without
\* overlapping another write leaves the cached counter equal to the live count.
C9_CountersSelfHeal ==
  (AllIdle /\ last.alone /\ last.drift) =>
     /\ Completed("like") =>
          Cached(LikeTargetModel(last.targetType), last.targetId, "likeCount")
            = getLikeCount(last.targetType, last.targetId)
     /\ (last.kind = "share" /\ last.status = 201) =>
          Cached(ShareTargetModel(last.targetType), last.targetId, "shareCount")
            = ShareCountOf(last.targetType, last.targetId)
     /\ Completed("follow") =>
          /\ users[last.targetId].followersCount = FollowersCountOf(last.targetId)
          /\ users[last.userId].followingCount = FollowingCountOf(last.userId)

\* C10 (as claimed; SpecCommentSerial): after each comment insert or delete, with
\* its hook, has completed, the commentCount of the recommendation or review is
\* the number of Comment documents that reference it, replies included.
C10_CommentCountIsLive ==
  (AllIdle /\ \/ last.kind = "comment" /\ last.status = 201
              \/ Completed("deleteComment")) =>
     Cached(CommentTargetModel(last.targetType), last.targetId, "commentCount")
       = CommentsOf(last.targetType, last.targetId)

\* a comment was stored by POST /api/social/comment or by addReply
CommentInserted ==
  \/ last.kind = "comment" /\ last.status = 201
  \/ last.kind = "addReply" /\ last.status = 200

\* C11 (as claimed; SpecCommentMethods): whenever a comment with a
\* parentCommentId has been inserted, by the route or by addReply, the stored
\* replyCount of the parent is one above what it was before the insert.
C11_ReplyInsertBumpsParent ==
  (AllIdle /\ CommentInserted /\ last.parentCommentId \in DOMAIN comments) =>
     comments[last.parentCommentId].replyCount = last.replyBefore + 1

\* C12 (as claimed; SpecCommentMethods): a successful delete of a reply whose
\* parent is still stored leaves the parent's replyCount one below what it was,
\* and no step of the delete of a top-level comment changes a replyCount.
C12_TopLevelDeleteStep(p) ==
  /\ loc[p].kind = "deleteComment" /\ pc'[p] # pc[p]
  /\ pc[p] # "deleteComment" /\ loc[p].parentCommentId = None

C12_DeleteLowersParentReplyCount ==
  /\ []((AllIdle /\ Completed("deleteComment")
          /\ last.parentCommentId \in DOMAIN comments) =>
         comments[last.parentCommentId].replyCount = last.replyBefore - 1)
  /\ [][\A p \in Procs :
          C12_TopLevelDeleteStep(p) =>
            \A c \in DOMAIN comments \cap DOMAIN comments' :
              comments'[c].replyCount = comments[c].replyCount]_vars

\* C13 (SpecCommentSerial): a delete requested by a user who is not the stored
\* comment's author is answered 403 and ends there, and changes no document:
\* the comment stays stored, every replyCount and every commentCount is as before.
C13_ForeignDeleteStep(p) ==
  /\ pc[p] = "deleteComment" /\ pc'[p] # pc[p]
  /\ loc[p].targetId \in DOMAIN comments
  /\ comments[loc[p].targetId].userId # loc[p].userId

C13_ForeignDeleteForbidden ==
  [][\A p \in Procs :
       C13_ForeignDeleteStep(p) =>
         /\ last'.kind = "deleteComment" /\ last'.status = 403
         /\ last'.commentId = loc[p].targetId
         /\ Idle(p)'
         /\ UNCHANGED db]_vars

\* C13 witness: another user's delete of a reply was refused; the reply is stored.
C13_Witness ==
  /\ last.kind = "deleteComment" /\ last.status = 403
  /\ last.commentId \in DOMAIN comments
  /\ comments[last.commentId].parentCommentId # None
  /\ comments[last.commentId].userId # last.userId

\* C14 (as claimed; SpecCommentSerial): after a stored comment has been deleted,
\* the commentCount of its target is at least 1 below what it was.
C14_DeleteLowersCommentCount ==
  (AllIdle /\ Completed("deleteComment")) =>
     Cached(CommentTargetModel(last.targetType), last.targetId, "commentCount")
       <= last.cachedBefore - 1

\* getCommentReplies(parentId) / getTargetComments(...) as called with the
\* defaults of their options
DefaultReplyOptions ==
  [page |-> 1, limit |-> 10, sortOrder |-> "asc", includeReplies |-> FALSE]

DefaultCommentOptions ==
  [page |-> 1, limit |-> 20, sortOrder |-> "desc", includeReplies |-> FALSE]

\* the replies whose parent comment is no longer stored
Orphans ==
  {r \in DOMAIN comments : /\ comments[r].parentCommentId # None
                           /\ comments[r].parentCommentId \notin DOMAIN comments}

\* C15 (SpecCommentQuery): no step of a delete removes any comment but the
\* deleted one, so the replies of a deleted parent stay stored; such a reply,
\* when public and unmoderated, is returned by getCommentReplies(parentId), and
\* no getTargetComments call without includeReplies returns it.
C15_DeleteStep(p) == loc[p].kind = "deleteComment" /\ pc'[p] # pc[p]

C15_OrphanRepliesRetained ==
  /\ [][\A p \in Procs :
          C15_DeleteStep(p) =>
            \A c \in DOMAIN comments :
              c # loc[p].found =>
                /\ c \in DOMAIN comments'
                /\ comments'[c].parentCommentId = comments[c].parentCommentId]_vars
  /\ [](\A r \in Orphans :
          /\ Listed(comments[r]) =>
               r \in Range(getCommentReplies(comments[r].parentCommentId,
                                             DefaultReplyOptions))
          /\ \A targetType \in CommentTargetTypes, options \in QueryOptions :
               \A targetId \in TargetIds(targetType) :
                 ~options.includeReplies =>
                   r \notin Range(getTargetComments(targetType, targetId, options)))

\* C15 witness: a parent with a public, unmoderated reply has just been deleted.
C15_Witness ==
  /\ AllIdle /\ Completed("deleteComment")
  /\ \E r \in Orphans : /\ comments[r].parentCommentId = last.commentId
                         /\ Listed(comments[r])

\* the text contains 'spam', 'fake' or 'scam' in some letter case
Denylisted(text) ==
  \E w \in inappropriateWords : includes(toLowerCase(Trim(text)), w)

\* C16 (SpecCommentQuery): a POST /comment whose text contains a denylisted
\* word is answered 201 and its comment is stored; every stored comment with
\* such a text has isModerated = true and is in no result of getTargetComments
\* or getCommentReplies, whatever the options.
C16_DenylistedIsStoredModerated ==
  /\ (AllIdle /\ last.kind = "comment") =>
        last.status = 201 /\ last.commentId \in DOMAIN comments
  /\ LET denylisted == {c \in DOMAIN comments : Denylisted(comments[c].text)}
     IN /\ \A c \in denylisted : comments[c].isModerated
        /\ denylisted # {} =>
             \A options \in QueryOptions :
               /\ \A targetType \in CommentTargetTypes :
                    \A targetId \in TargetIds(targetType) :
                      Range(getTargetComments(targetType, targetId, options))
                        \cap denylisted = {}
               /\ \A parent \in ParentIds :
                    Range(getCommentReplies(parent, options)) \cap denylisted = {}

\* C16 witness: a reply with the text ' Spam' was accepted and is stored,
\* trimmed and moderated.
C16_Witness ==
  /\ AllIdle /\ last.kind = "comment" /\ last.status = 201
  /\ last.commentId \in DOMAIN comments
  /\ comments[last.commentId].text = <<"S", "p", "a", "m">>
  /\ comments[last.commentId].isModerated
  /\ comments[last.commentId].parentCommentId \in DOMAIN comments

\* C18 (SpecCommentQuery): whatever the options, getTargetComments(targetType,
\* targetId, options) returns only stored comments of that target with
\* isPublic = true and isModerated = false and, without includeReplies, none
\* that has a parentCommentId.
C18_TargetCommentsFiltered ==
  \A targetType \in CommentTargetTypes, options \in QueryOptions :
    \A targetId \in TargetIds(targetType) :
      \A c \in Range(getTargetComments(targetType, targetId, options)) :
        /\ c \in DOMAIN comments
        /\ comments[c].targetType = targetType /\ comments[c].targetId = targetId
        /\ comments[c].isPublic /\ ~comments[c].isModerated
        /\ ~options.includeReplies => comments[c].parentCommentId = None

\* C18 witness: the route listed the comments of a target that has a public
\* top-level comment, a reply and a moderated comment, and returned some.
C18_Witness ==
  /\ AllIdle /\ last.kind = "getTargetComments" /\ last.result # <<>>
  /\ \E c1, c2 \in DOMAIN comments :
       /\ comments[c1].targetType = last.targetType
       /\ comments[c1].targetId = last.targetId
       /\ comments[c1].parentCommentId # None /\ ~comments[c1].isModerated
       /\ comments[c2].targetType = last.targetType
       /\ comments[c2].targetId = last.targetId
       /\ comments[c2].isModerated

\* C19 (SpecCommentQuery): for every parent id and whatever the options,
\* getCommentReplies(parent, options) returns only stored comments whose
\* parentCommentId is that parent; a comment without a parentCommentId is in
\* no such result.
C19_RepliesOnlyOfParent ==
  \A parent \in ParentIds, options \in QueryOptions :
    \A c \in Range(getCommentReplies(parent, options)) :
      /\ c \in DOMAIN comments
      /\ comments[c].parentCommentId = parent
      /\ comments[c].parentCommentId # None

\* C19 witness: the replies of a comment were asked for and some returned, while
\* a top-level comment of the same target is stored.
C19_Witness ==
  /\ AllIdle /\ last.kind = "getCommentReplies" /\ last.result # <<>>
  /\ \E c \in DOMAIN comments :
       /\ comments[c].parentCommentId = None /\ Listed(comments[c])
       /\ c # last.targetId

\* getTargetComments asked for the first page of all comments, replies included
EveryCommentOptions ==
  [page |-> 1, limit |-> 10, sortOrder |-> "desc", includeReplies |-> TRUE]

\* C17 (SpecReport): each report() call raises the comment's reportCount by
\* exactly 1 (so after k calls on a fresh comment it is k), and for a comment
\* that the content filter did not flag isModerated is true exactly when
\* reportCount >= 5, and the comment is in the public listing exactly when
\* reportCount < 5.
C17_ReportStep(p) ==
  /\ pc[p] = "report_save" /\ pc'[p] # pc[p]
  /\ loc[p].found \in DOMAIN comments

C17_FiveReportsModerate ==
  /\ [][\A p \in Procs :
          C17_ReportStep(p) =>
            comments'[loc[p].found].reportCount
              = comments[loc[p].found].reportCount + 1]_vars
  /\ [](AllIdle =>
          \A c \in DOMAIN comments :
            ~Denylisted(comments[c].text) =>
              /\ comments[c].isModerated <=> comments[c].reportCount >= 5
              /\ c \in Range(getTargetComments(comments[c].targetType,
                                               comments[c].targetId,
                                               EveryCommentOptions))
                   <=> comments[c].reportCount < 5)

\* C17 witness: the fifth report of an unflagged comment, unmoderated until
\* then, has just completed.
C17_Witness ==
  /\ AllIdle /\ last.kind = "report" /\ last.status = 200
  /\ last.count = 5 /\ ~last.existedBefore
  /\ ~Denylisted(comments[last.commentId].text)
  /\ comments[last.commentId].reportCount = 5
  /\ comments[last.commentId].isModerated

\* C20 (SpecFollowQuery): in every follow graph the requests build, for every
\* user u and every limit, no result of getSuggestedFollows(u, limit) contains
\* u or a user v with a Follow from u to v; and so does every answer of the
\* route.
C20_SuggestionsExcludeSelfAndFollowed ==
  /\ \A u \in UserIds, limit \in SuggestLimits :
       \A r \in Suggestions(FollowingIdsOf(u), limit) :
         \A v \in Range(r) : v # u /\ FollowFindOne(u, v) = {None}
  /\ (AllIdle /\ last.kind = "getSuggestedFollows") =>
        \A c \in Range(last.result) :
          c._id # last.userId /\ FollowFindOne(last.userId, c._id) = {None}

\* C20 witness: u follows w, w follows u and v; the route suggested v to u (and
\* not u itself).
C20_Witness ==
  /\ AllIdle /\ last.kind = "getSuggestedFollows" /\ Len(last.result) = 1
  /\ \E w \in UserIds :
       /\ FollowFindOne(last.userId, w) # {None}
       /\ FollowFindOne(w, last.userId) # {None}
       /\ FollowFindOne(w, last.result[1]._id) # {None}

\* a follows b (an accepted Follow document from a to b is stored)
Follows(a, b) ==
  \E d \in DOMAIN follows : /\ follows[d].followerId = a
                            /\ follows[d].followingId = b
                            /\ follows[d].status = "accepted"

\* the number of users f such that u follows f and f follows c
MutualConnections(u, c) ==
  Cardinality({f \in DOMAIN users : Follows(u, f) /\ Follows(f, c)})

\* the users that can be suggested to u
Candidates(u) ==
  {c \in DOMAIN users : c # u /\ ~Follows(u, c) /\ MutualConnections(u, c) >= 1}

C22_CreateStep(p) == pc[p] = "createShare" /\ pc'[p] # pc[p]

C22_EveryShareIsStoredAndCounted ==
  /\ [][\A p \in Procs :
          C22_CreateStep(p) =>
            /\ NewId \notin DOMAIN shares
            /\ DOMAIN shares' = DOMAIN shares \cup {NewId}
            /\ \A d \in DOMAIN shares : shares'[d] = shares[d]]_vars
  /\ []((AllIdle /\ last.kind = "share" /\ last.status = 201) =>
          /\ ShareCountOf(last.targetType, last.targetId) = last.countBefore + 1
          /\ Cached(ShareTargetModel(last.targetType), last.targetId, "shareCount")
               = ShareCountOf(last.targetType, last.targetId))

\* C23 (as claimed; SpecShareSerial): a share request with shareType external
\* whose platform is absent or not one of twitter, facebook, linkedin, email,
\* copy_link is rejected, stores no Share document and changes no shareCount.
C23_ExternalNeedsPlatform ==
  (/\ AllIdle /\ last.kind = "share"
   /\ last.opts.shareType = "external"
   /\ last.opts.platform \notin ExternalPlatforms) =>
     /\ last.status = 400
     /\ ShareCountOf(last.targetType, last.targetId) = last.countBefore
     /\ Cached(ShareTargetModel(last.targetType), last.targetId, "shareCount")
          = last.cachedBefore

\* base URLs generateShareUrl is called with
BaseUrls == {DefaultBaseUrl, "https://books.example"}

\* C26 (SpecShareSerial): for every stored share and every base URL,
\* generateShareUrl gives baseUrl/targetType/targetId, the same for two shares
\* of the same target; generateShareText gives the share's message when it has
\* one and otherwise a non-empty text that is the same for all shares of that
\* targetType; and the route answers with that URL (default base) and text.
C26_ShareUrlAndText ==
  /\ \A d \in DOMAIN shares, baseUrl \in BaseUrls :
       /\ shares[d].targetType \in {"recommendation", "review", "book"}
       /\ generateShareUrl(shares[d], baseUrl)
            = <<baseUrl, shares[d].targetType, shares[d].targetId>>
       /\ shares[d].message # <<>> => generateShareText(shares[d]) = shares[d].message
       /\ shares[d].message = <<>> => generateShareText(shares[d]) # <<>>
       /\ \A e \in DOMAIN shares :
            /\ (/\ shares[e].targetType = shares[d].targetType
                /\ shares[e].targetId = shares[d].targetId) =>
                  generateShareUrl(shares[e], baseUrl)
                    = generateShareUrl(shares[d], baseUrl)
            /\ (/\ shares[e].targetType = shares[d].targetType
                /\ shares[e].message = <<>> /\ shares[d].message = <<>>) =>
                  generateShareText(shares[e]) = generateShareText(shares[d])
  /\ (AllIdle /\ last.kind = "share" /\ last.status = 201) =>
        /\ last.result[1] = <<DefaultBaseUrl, last.targetType, last.targetId>>
        /\ last.result[2] # <<>>
        /\ last.commentId \in DOMAIN shares
        /\ last.result[2] = generateShareText(shares[last.commentId])

\* C26 witness: an external twitter share with a message was answered with its
\* URL and the message, while a share of the same target without a message and
\* one by another user are stored.
C26_Witness ==
  /\ AllIdle /\ last.kind = "share" /\ last.status = 201
  /\ last.opts.shareType = "external" /\ last.opts.platform = "twitter"
  /\ last.result = <<(<<DefaultBaseUrl, "review", 21>>), (<<"h">>)>>
  /\ \E d, e \in DOMAIN shares :
       /\ shares[d].targetType = "review" /\ shares[d].message = <<>>
       /\ shares[e].targetType = "review" /\ shares[e].userId # last.userId

\* C24 (as claimed; SpecClicks): the save of every click request raises the
\* stored clickCount of its share by exactly 1, however the load and save steps
\* of the requests interleave (so N completed requests raise it by N), and no
\* step of a click request changes another share or a target document.
C24_SaveStep(p) == pc[p] = "click_save" /\ pc'[p] # pc[p]

C24_ClickStep(p) == loc[p].kind = "click" /\ pc'[p] # pc[p]

C24_EveryClickCounts ==
  /\ [][\A p \in Procs :
          C24_SaveStep(p) =>
            shares'[loc[p].found].clickCount = shares[loc[p].found].clickCount + 1]_vars
  /\ [][\A p \in Procs :
          C24_ClickStep(p) =>
            /\ DOMAIN shares' = DOMAIN shares
            /\ \A d \in DOMAIN shares : d # loc[p].commentId => shares'[d] = shares[d]
            /\ UNCHANGED <<recommendations, reviews, books>>]_vars

\* the shares of a target created inside the trailing window of a call
InWindow(options, key) ==
  {d \in DOMAIN shares : /\ shares[d].targetType = key[1]
                         /\ shares[d].targetId = key[2]
                         /\ shares[d].createdAt >= Today - options.timeframe}

\* 2 x (number of shares) + (sum of their clickCount)
Score(ds) == 2 * Cardinality(ds) + SumClicks(ds)

\* the targets a call ranks: those with a share inside the window (of the
\* targetType asked for, when the call names one)
Ranked(options) ==
  {key \in ShareTargets :
     /\ InWindow(options, key) # {}
     /\ options.targetType # "none" => key[1] = options.targetType}

\* C25 (SpecTrending): every answer of getTrendingShares has one group per
\* (targetType, targetId), no target twice, each with a share inside the
\* trailing window and with the score 2 x (number of its shares inside the
\* window) + (sum of their clickCount), shares created before the window start
\* not counted; the answer has at most limit groups, in descending score order,
\* and no ranked target left out has a higher score than a returned one.
C25_TrendingScoresAndOrder ==
  (AllIdle /\ last.kind = "getTrendingShares") =>
    LET options == last.opts
        r == last.result
    IN /\ Len(r) <= options.limit
       /\ \A i \in 1 .. Len(r) :
            /\ r[i]._id \in Ranked(options)
            /\ r[i].trendingScore = Score(InWindow(options, r[i]._id))
       /\ \A i, j \in 1 .. Len(r) :
            i < j => r[i]._id # r[j]._id /\ r[i].trendingScore >= r[j].trendingScore
       /\ \A key \in Ranked(options) \ {r[i]._id : i \in 1 .. Len(r)} :
            /\ Len(r) = options.limit
            /\ \A i \in 1 .. Len(r) :
                 Score(InWindow(options, key)) <= r[i].trendingScore

\* C25 witness: one group was asked for; the target returned has a clicked
\* share inside the window and one created before it, and a target with a lower
\* score was left out.
C25_Witness ==
  /\ AllIdle /\ last.kind = "getTrendingShares" /\ last.opts.limit = 1
  /\ Len(last.result) = 1
  /\ last.result[1].trendingScore = 2 + ClicksBefore
  /\ \E d \in DOMAIN shares :
       /\ <<shares[d].targetType, shares[d].targetId>> = last.result[1]._id
       /\ shares[d].createdAt < Today - last.opts.timeframe
  /\ \E key \in Ranked(last.opts) :
       key # last.result[1]._id /\ Score(InWindow(last.opts, key)) = 2

\* the denormalized counters of a User document
UserCounters(u) ==
  <<users[u].followersCount, users[u].followingCount,
    users[u].recommendationsCount, users[u].likesReceivedCount>>

\* C27 (as claimed; SpecProfile): no step of a profile update, whatever its
\* request body, changes the followersCount, followingCount,
\* recommendationsCount or likesReceivedCount of any user.
C27_ProfileStep(p) == loc[p].kind = "profile" /\ pc'[p] # pc[p]

C27_ProfileKeepsCounters ==
  [][\A p \in Procs :
       C27_ProfileStep(p) =>
         \A u \in DOMAIN users : UserCounters(u)' = UserCounters(u)]_vars

\* the request of p is a like, comment or share of a target that is not stored
OnMissingTarget(r) ==
  /\ r.kind \in {"like", "comment", "share"}
  /\ r.targetType = "recommendation"
  /\ r.targetId \notin DOMAIN recommendations

\* C28 (SpecMissingTarget): a like, comment or share of a recommendation that
\* is not stored is answered as usual (200 with liked and the live like count,
\* 201, 201) and its document is stored, and no step of it creates a target
\* document or changes a stored review, book or comment (but for the comment it
\* adds).
C28_MissingStep(p) == OnMissingTarget(loc[p]) /\ pc'[p] # pc[p]

C29_ThrowStep(p) == loc'[p].failed # loc[p].failed /\ loc'[p].failed # {}

C29_HookErrorsAreSwallowed ==
  /\ [][\A p \in Procs : C29_ThrowStep(p) => UNCHANGED db]_vars
  /\ []((AllIdle /\ last.failed # {}) =>
          /\ last.kind = "like" =>
               /\ last.status = 200 /\ last.flag = ~last.existedBefore
               /\ last.flag <=>
                    LikeFindOne(last.userId, last.targetType, last.targetId) # {None}
               /\ Cached(LikeTargetModel(last.targetType), last.targetId, "likeCount")
                    = last.cachedBefore
          /\ last.kind = "follow" =>
               /\ last.status = 200 /\ last.flag = ~last.existedBefore
               /\ last.flag <=> FollowFindOne(last.userId, last.targetId) # {None}
               /\ "followingCount" \in last.failed =>
                    users[last.userId].followingCount = last.cachedBefore[1]
               /\ "followersCount" \in last.failed =>
                    users[last.targetId].followersCount = last.cachedBefore[2]
          /\ last.kind = "share" =>
               /\ last.status = 201 /\ last.commentId \in DOMAIN shares
               /\ Cached(ShareTargetModel(last.targetType), last.targetId,
                         "shareCount") = last.cachedBefore
          /\ last.kind = "comment" =>
               /\ last.status = 201 /\ last.commentId \in DOMAIN comments
               /\ Cached(CommentTargetModel(last.targetType), last.targetId,
                         "commentCount") = last.cachedBefore
          /\ last.kind = "deleteComment" =>
               /\ last.status = 200 /\ last.commentId \notin DOMAIN comments
               /\ "commentCount" \in last.failed =>
                    Cached(CommentTargetModel(last.targetType), last.targetId,
                           "commentCount") = last.cachedBefore
               /\ "replyCount" \in last.failed =>
                    ReplyCountOf(last.parentCommentId) = last.replyBefore)

\* C29 witness: a second user liked comment 41, the hook of that like threw,
\* the like is stored and answered as usual, and the comment's likeCount is
\* still the 1 that the first like left.
C29_Witness ==
  /\ AllIdle /\ last.kind = "like" /\ last.failed = {"likeCount"}
  /\ last.targetType = "comment" /\ last.targetId = 41
  /\ last.status = 200 /\ last.flag
  /\ getLikeCount("comment", 41) = 2
  /\ comments[41].likeCount = 1

\* C30 (as claimed; SpecRecLike): in every reachable state, also when like
\* requests of one user overlap, the likes of a recommendation hold at most one
\* entry per user, so the likeCount virtual is the number of distinct users
\* who like it.
C30_OneEmbeddedLikePerUser ==
  \A id \in DOMAIN recommendations :
    LET doc == recommendations[id]
    IN /\ \A i, j \in 1 .. Len(doc.likes) : i # j => doc.likes[i] # doc.likes[j]
       /\ ReadPath("BookRecommendation", doc, "likeCount")
            = Cardinality(Range(doc.likes))

====
